-------------------------- MODULE ArtifactOwnedProofs --------------------------
(***************************************************************************)
(* Proofs about what only one job touches in ArtifactStore, while other    *)
(* jobs do what they like with the rest: the directory keeps the promise   *)
(* of Releases, links are overwritten, outputs are built from all inputs,  *)
(* and after a cleanup what counts as done is current.  Crashes and        *)
(* failures are allowed.                                                   *)
(***************************************************************************)
EXTENDS ArtifactContentProofs

(* Statuses of a task whose output has not been moved to its name.         *)
Unbuilt == {"found", "pending", "started", "running", "failed"}

(* Jobs keep to what they may touch.                                       *)
Theirs == \A j \in Job : /\ phase[j] \in {"list", "rm"} => j \in Cleaner
                         /\ \A t \in Task : state[j][t] # "none" => t \in Touches(j)

(* For a job and the tasks that only it touches: links and lists.          *)
LinkExists(j) == \A t \in Mine(j) : link[t] # None => Exists(t, link[t])
OutputMoved(j) == \A t \in Mine(j) : state[j][t] \in Linking => Exists(t, name[j][t])
ListedNotLinked(j) == \A t \in Mine(j), n \in Version : <<t, n>> \in deletable[j] => link[t] # n
NotBuilt(j) == \A t \in Mine(j) : state[j][t] \in Unbuilt => out[t][name[j][t]] = {}
NeverRefused(j) == \A t \in Mine(j) : state[j][t] # "refused"
LinkRemoved(j) == \A t \in Mine(j) : /\ state[j][t] = "symlink" => link[t] = None
                                     /\ state[j][t] = "remove" => link[t] # None
DoneExists(j) == \A t \in Mine(j) : state[j][t] = "done" => Exists(t, name[j][t])

(* No output is newer than what can be had now, has a name or is dated.    *)
OutputsOld(j) == \A t \in Mine(j), n \in Version : out[t][n] # {} => n <= VersionNow(t)
NamesNewest(j) == \A t \in Mine(j) : state[j][t] \in Named =>
                    \A n \in Version : out[t][n] # {} => n <= name[j][t]
TodayNewest(j) == phase[j] \in {"update", "restart"} =>
                    /\ today[j] <= day
                    /\ \A t \in Mine(j) \cap Daily, n \in Version : out[t][n] # {} => n <= today[j]

MineInv(j) == /\ LinkExists(j) /\ OutputMoved(j) /\ ListedNotLinked(j)
              /\ NotBuilt(j) /\ NeverRefused(j) /\ LinkRemoved(j) /\ DoneExists(j)
              /\ OutputsOld(j) /\ NamesNewest(j) /\ TodayNewest(j)

OwnInv == NameInv /\ Theirs /\ \A j \in Job : MineInv(j)

-----------------------------------------------------------------------------
(* What is only touched by one job is not touched by another.              *)
LEMMA MineTasks ==
  ASSUME NEW j \in Job
  PROVE  /\ Mine(j) \subseteq Touches(j) /\ Touches(j) \subseteq Task
         /\ \A k \in Job : k # j => Mine(j) \cap Touches(k) = {}
         /\ Roots[j] \subseteq Touches(j) /\ Closed(Touches(j))
         /\ j \in Cleaner => Touches(j) = Task
<1>1. Roots[j] \subseteq Task /\ \A t \in Task : Requires[t] \subseteq Task
  BY StoreAssumption
<1>2. \A t \in Roots[j] : t \in Reach(t) /\ Reach(t) \subseteq Task /\ Closed(Reach(t))
  BY <1>1, ReachClosed
<1>3. /\ Touches(j) \subseteq Task /\ Roots[j] \subseteq Touches(j)
      /\ j \in Cleaner => Touches(j) = Task
  BY <1>1, <1>2 DEF Touches
<1>4. Closed(Touches(j))
  <2>1. CASE j \in Cleaner
    BY <1>1, <2>1 DEF Closed, Touches
  <2>2. CASE j \notin Cleaner
    <3> SUFFICES ASSUME NEW t \in Roots[j], NEW u \in Reach(t), NEW d \in Requires[u]
                 PROVE  d \in Reach(t)
      BY <2>2 DEF Closed, Touches
    <3> QED BY <1>2 DEF Closed
  <2> QED BY <2>1, <2>2
<1> QED BY <1>3, <1>4 DEF Mine

LEMMA OwnTypes ==
  ASSUME JobInv
  PROVE  /\ Daily \subseteq Task /\ Linked \subseteq Task
         /\ \A t \in Task : Requires[t] \subseteq Task
         /\ Version \subseteq Int /\ None \notin Version
         /\ day \in 0 .. MaxDay /\ day \in Int /\ dump \in 0 .. MaxDump /\ dump \in Int
         /\ \A k \in Job : today[k] \in Int /\ today[k] \in Version
         /\ \A t \in Task : VersionNow(t) \in Int /\ VersionNow(t) \in Version
         /\ \A k \in Job, t \in Task : state[k][t] \in Named => name[k][t] \in Version
<1>1. TypeOK
  BY DEF JobInv
<1>2. Version \subseteq Int
  BY StoreAssumption DEF Version
<1>3. day \in Version /\ dump \in Version /\ \A k \in Job : today[k] \in Version
  BY <1>1, Versions DEF TypeOK
<1> QED BY <1>1, <1>2, <1>3, StoreAssumption, Versions DEF JobInv, TypeOK, NamesKnown, VersionNow

(* What a job may change: all that is local to it, and what it touches.    *)
LEMMA Frame ==
  ASSUME JobInv, Theirs, NEW j \in Job, Proceed(j) \/ GoWrong(j)
  PROVE  /\ UNCHANGED <<day, dump>>
         /\ \A t \in Task \ Touches(j) : out'[t] = out[t] /\ link'[t] = link[t]
         /\ \A k \in Job \ {j} : /\ phase'[k] = phase[k] /\ today'[k] = today[k]
                                 /\ todo'[k] = todo[k] /\ deletable'[k] = deletable[k]
                                 /\ name'[k] = name[k] /\ state'[k] = state[k]
<1> USE DEF JobInv, TypeOK
<1> DEFINE Apart == \A k \in Job \ {j} :
              /\ phase'[k] = phase[k] /\ today'[k] = today[k]
              /\ todo'[k] = todo[k] /\ deletable'[k] = deletable[k]
              /\ name'[k] = name[k] /\ state'[k] = state[k]
           Untouched == \A t \in Task \ Touches(j) : out'[t] = out[t] /\ link'[t] = link[t]
<1>1. CASE Exit(j) /\ UNCHANGED <<day, dump, out, link>>
  BY <1>1 DEF Exit
<1>2. CASE Crash(j) \/ Restart(j) \/ FinishUpdate(j)
  BY <1>1, <1>2 DEF Crash, Restart, FinishUpdate, world, files
<1>3. CASE StartCleanup(j) \/ StartUpdate(j) \/ \E t \in Task : ListDirectory(j, t)
  BY <1>3 DEF StartCleanup, StartUpdate, ListDirectory, world, files
<1>4. ASSUME NEW t \in Task, NEW n \in Version, Remove(j, t, n)
      PROVE  UNCHANGED <<day, dump>> /\ Untouched /\ Apart
  <2>1. Touches(j) = Task
    BY <1>4, MineTasks DEF Remove, Theirs
  <2> QED BY <1>4, <2>1 DEF Remove, world
<1>5. ASSUME NEW t \in Task, Expand(j, t)
      PROVE  UNCHANGED <<day, dump>> /\ Untouched /\ Apart
  BY <1>5 DEF Expand, world, files
<1>6. ASSUME NEW t \in Task, \/ CheckComplete(j, t) \/ LookupFails(j, t) \/ BeginTask(j, t)
                             \/ ReadInputs(j, t) \/ TaskFails(j, t) \/ FindLink(j, t)
                             \/ Retry(j, t)
      PROVE  UNCHANGED <<day, dump>> /\ Untouched /\ Apart
  BY <1>6 DEF CheckComplete, LookupFails, BeginTask, ReadInputs, TaskFails, FindLink, Retry,
     Become, world, files
<1>7. ASSUME NEW t \in Task, MoveOutput(j, t) \/ RemoveLink(j, t) \/ MakeLink(j, t)
      PROVE  UNCHANGED <<day, dump>> /\ Untouched /\ Apart
  <2>1. t \in Touches(j)
    BY <1>7 DEF MoveOutput, RemoveLink, MakeLink, Theirs
  <2> QED BY <1>7, <2>1 DEF MoveOutput, RemoveLink, MakeLink, Become, world
<1> HIDE DEF JobInv, TypeOK
<1> QED BY <1>2, <1>3, <1>4, <1>5, <1>6, <1>7
        DEF Proceed, GoWrong, Clean, Schedule, Work

-----------------------------------------------------------------------------
LEMMA OwnInvInit == Init => OwnInv
<1> SUFFICES ASSUME Init PROVE Theirs /\ \A j \in Job : MineInv(j)
  BY NameInvInit DEF OwnInv
<1>1. /\ \A j \in Job, t \in Task : state[j][t] = "none"
      /\ \A j \in Job : phase[j] = "idle" /\ deletable[j] = {}
      /\ \A t \in Task, n \in Version : out[t][n] = {}
      /\ \A t \in Task : link[t] = None
      /\ \A j \in Job : Mine(j) \subseteq Task
  BY MineTasks DEF Init
<1>2. {"none", "idle"} \cap (Named \cup Unbuilt \cup Linking) = {}
  BY DEF Unbuilt, Named, Working, Linking
<1> QED BY <1>1, <1>2 DEF Theirs, MineInv, LinkExists, OutputMoved, ListedNotLinked, NotBuilt,
           NeverRefused, LinkRemoved, DoneExists, OutputsOld, NamesNewest, TodayNewest

(* Only the begin of an update and Expand want tasks.                      *)
LEMMA TheirsNext ==
  ASSUME JobInv, Theirs, NEW j \in Job, Proceed(j) \/ GoWrong(j)
  PROVE  Theirs'
<1> USE DEF JobInv, TypeOK
<1>1. /\ Roots[j] \subseteq Touches(j) /\ Closed(Touches(j)) /\ Touches(j) \subseteq Task
      /\ \A k \in Job \ {j} : phase'[k] = phase[k] /\ state'[k] = state[k]
  BY MineTasks, Frame
<1> DEFINE Listing == phase'[j] \in {"list", "rm"} => j \in Cleaner
           Working1 == \A t \in Task : state'[j][t] # "none" => t \in Touches(j)
<1>2. SUFFICES Listing /\ Working1
  BY <1>1 DEF Theirs
<1>3. CASE Exit(j)
  BY <1>3 DEF Exit
<1>4. CASE Crash(j) \/ Restart(j) \/ FinishUpdate(j)
  <2>1. CASE j \in Cleaner /\ UNCHANGED state
    BY <2>1 DEF Theirs
  <2> QED BY <1>3, <1>4, <2>1 DEF Crash, Restart, FinishUpdate
<1>5. CASE StartCleanup(j) \/ \E t \in Task : ListDirectory(j, t) \/ \E n \in Version : Remove(j, t, n)
  <2>1. j \in Cleaner /\ UNCHANGED state
    BY <1>5 DEF StartCleanup, ListDirectory, Remove, Theirs
  <2> QED BY <2>1 DEF Theirs
<1>6. CASE StartUpdate(j)
  BY <1>1, <1>6 DEF StartUpdate
<1>7. ASSUME NEW t \in Task, Expand(j, t) PROVE Listing /\ Working1
  <2>1. /\ t \in Touches(j) /\ UNCHANGED phase
        /\ \A u \in Task : state'[j][u] = state[j][u] \/ u = t \/ u \in Requires[t]
    BY <1>7 DEF Expand, Theirs
  <2> QED BY <1>1, <2>1 DEF Theirs, Closed
<1>8. ASSUME NEW t \in Task,
             \/ CheckComplete(j, t) \/ LookupFails(j, t) \/ BeginTask(j, t) \/ ReadInputs(j, t)
             \/ TaskFails(j, t) \/ MoveOutput(j, t) \/ FindLink(j, t) \/ RemoveLink(j, t)
             \/ MakeLink(j, t) \/ Retry(j, t)
      PROVE  Listing /\ Working1
  <2>1. state[j][t] # "none" /\ UNCHANGED phase
    BY <1>8 DEF CheckComplete, LookupFails, BeginTask, Ready, ReadInputs, TaskFails, MoveOutput,
       FindLink, RemoveLink, MakeLink, Retry
  <2>2. \A u \in Task : u # t => state'[j][u] = state[j][u]
    BY <1>8 DEF CheckComplete, LookupFails, BeginTask, ReadInputs, TaskFails, MoveOutput,
       FindLink, RemoveLink, MakeLink, Retry, Become
  <2> QED BY <2>1, <2>2 DEF Theirs
<1> HIDE DEF JobInv, TypeOK, Listing, Working1
<1> QED BY <1>4, <1>5, <1>6, <1>7, <1>8 DEF Proceed, GoWrong, Clean, Schedule, Work

-----------------------------------------------------------------------------
(* Steps that leave the outputs and links of a job alone and build nothing *)
(* for it.                                                                 *)
LEMMA MineQuiet ==
  ASSUME JobInv, NEW j \in Job, MineInv(j),
         \A t \in Mine(j) : out'[t] = out[t] /\ link'[t] = link[t] /\ name'[j][t] = name[j][t],
         today'[j] = today[j], deletable'[j] \subseteq deletable[j],
         day' \in Int, day <= day', dump' \in Int, dump <= dump',
         phase'[j] \in {"update", "restart"} => phase[j] \in {"update", "restart"},
         \A t \in Mine(j) :
           \/ state'[j][t] = state[j][t]
           \/ state[j][t] \in Unbuilt /\ state'[j][t] \in Unbuilt
           \/ state'[j][t] \in {"none", "wanted", "unknown"}
  PROVE  MineInv(j)'
<1> USE DEF MineInv
<1>1. /\ Unbuilt \subseteq Named /\ Unbuilt \cap Linking = {}
      /\ Unbuilt \cap {"refused", "done", "none", "wanted", "unknown"} = {}
      /\ {"none", "wanted", "unknown"} \cap (Named \cup Linking) = {}
      /\ {"symlink", "remove"} \subseteq Linking
  BY DEF Unbuilt, Named, Working, Linking
<1>2. LinkExists(j)' /\ OutputMoved(j)' /\ ListedNotLinked(j)'
  BY <1>1 DEF LinkExists, OutputMoved, ListedNotLinked, Exists
<1>3. NotBuilt(j)' /\ NeverRefused(j)' /\ LinkRemoved(j)' /\ DoneExists(j)'
  BY <1>1 DEF NotBuilt, NeverRefused, LinkRemoved, DoneExists, Exists
<1>4. OutputsOld(j)'
  <2> SUFFICES ASSUME NEW t \in Mine(j), NEW n \in Version, out[t][n] # {}
               PROVE  n <= VersionNow(t)'
    BY DEF OutputsOld
  <2>1. n <= VersionNow(t) /\ n \in Int /\ day \in Int /\ dump \in Int
    BY OwnTypes DEF OutputsOld
  <2> QED BY <2>1 DEF VersionNow
<1>5. NamesNewest(j)'
  BY <1>1 DEF NamesNewest
<1>6. TodayNewest(j)'
  <2> SUFFICES ASSUME phase'[j] \in {"update", "restart"} PROVE today[j] <= day'
    BY DEF TodayNewest
  <2>1. today[j] <= day /\ today[j] \in Int /\ day \in Int
    BY OwnTypes DEF TodayNewest
  <2> QED BY <2>1
<1> QED BY <1>2, <1>3, <1>4, <1>5, <1>6

(* No task has a name, and nothing is built or linked; what is linked is   *)
(* not removed.                                                            *)
LEMMA MineNone ==
  ASSUME JobInv, NEW j \in Job, MineInv(j), UNCHANGED <<day, dump>>,
         \A t \in Mine(j) : link'[t] = link[t],
         \A t \in Mine(j), n \in Version :
           /\ out'[t][n] \in {out[t][n], {}}
           /\ link[t] = n => out'[t][n] = out[t][n]
           /\ <<t, n>> \in deletable'[j] => <<t, n>> \in deletable[j] \/ link[t] # n,
         \A t \in Mine(j) : state'[j][t] \in {"none", "wanted"},
         phase'[j] \in {"update", "restart"} => today'[j] = day
  PROVE  MineInv(j)'
<1> USE DEF MineInv
<1>1. \A t \in Mine(j) : state'[j][t] \notin Named \cup Linking \cup Unbuilt \cup {"done", "refused"}
  BY DEF Unbuilt, Named, Working, Linking
<1>2. LinkExists(j)'
  <2> SUFFICES ASSUME NEW t \in Mine(j), link[t] # None PROVE out'[t][link[t]] # {}
    BY DEF LinkExists, Exists
  <2>1. link[t] \in Version
    BY MineTasks DEF JobInv, TypeOK
  <2>2. out[t][link[t]] # {}
    BY DEF LinkExists, Exists
  <2> QED BY <2>1, <2>2
<1>3. OutputMoved(j)' /\ ListedNotLinked(j)'
  BY <1>1 DEF OutputMoved, ListedNotLinked
<1>4. NotBuilt(j)' /\ NeverRefused(j)' /\ LinkRemoved(j)' /\ DoneExists(j)' /\ NamesNewest(j)'
  BY <1>1 DEF NotBuilt, NeverRefused, LinkRemoved, DoneExists, NamesNewest
<1>5. OutputsOld(j)'
  BY DEF OutputsOld, VersionNow
<1>6. TodayNewest(j)'
  <2> SUFFICES ASSUME phase'[j] \in {"update", "restart"}
               PROVE  /\ day <= day
                      /\ \A t \in Mine(j) \cap Daily, n \in Version : out'[t][n] # {} => n <= day
    BY DEF TodayNewest
  <2>1. \A t \in Mine(j) \cap Daily, n \in Version : out[t][n] # {} => n <= day
    BY DEF OutputsOld, VersionNow
  <2>2. \A t \in Mine(j) \cap Daily, n \in Version : out'[t][n] # {} => out[t][n] # {}
    OBVIOUS
  <2>3. day <= day
    BY OwnTypes
  <2> QED BY <2>1, <2>2, <2>3
<1> QED BY <1>2, <1>3, <1>4, <1>5, <1>6

LEMMA MinePhases ==
  ASSUME OwnInv, NEW j \in Job,
         \/ Clean(j) \/ StartUpdate(j) \/ FinishUpdate(j) \/ Crash(j) \/ Restart(j)
  PROVE  MineInv(j)'
<1> USE DEF OwnInv, NameInv
<1>1. /\ Mine(j) \subseteq Task /\ day \in Int /\ dump \in Int /\ TypeOK
      /\ {"none", "wanted"} \cap Named = {}
  BY MineTasks, OwnTypes DEF JobInv, Named, Working, Linking
<1>2. CASE Exit(j) /\ UNCHANGED <<world, files>>
  <2>1. phase'[j] = "idle" /\ deletable'[j] = {} /\ \A t \in Task : state'[j][t] = "none"
    BY <1>1, <1>2, ExitStep
  <2> QED BY <1>1, <1>2, <2>1, MineNone DEF files, world
<1>3. CASE Crash(j) \/ Restart(j)
  BY <1>2, <1>3 DEF Crash, Restart
<1>4. CASE /\ UNCHANGED <<world, files, name, state, today, deletable>>
           /\ phase'[j] \in {"update", "restart"} => phase[j] \in {"update", "restart"}
  BY <1>1, <1>4, MineQuiet DEF files, world
<1>5. CASE FinishUpdate(j)
  BY <1>1, <1>2, <1>4, <1>5 DEF FinishUpdate, TypeOK
<1>6. CASE StartUpdate(j)
  <2>1. /\ phase'[j] = "update" /\ today'[j] = day
        /\ \A t \in Task : state'[j][t] \in {"none", "wanted"}
        /\ UNCHANGED <<world, files, deletable>>
    BY <1>1, <1>6 DEF StartUpdate, Today, TypeOK
  <2> QED BY <1>1, <2>1, MineNone DEF files, world
<1>7. CASE StartCleanup(j)
  <2>1. phase'[j] = "list" /\ UNCHANGED <<world, files, name, state, today, deletable>>
    BY <1>1, <1>7 DEF StartCleanup, TypeOK
  <2> QED BY <1>4, <2>1
<1>8. ASSUME NEW t \in Task, ListDirectory(j, t) PROVE MineInv(j)'
  <2>1. /\ phase[j] = "list" /\ phase'[j] \in {"list", "rm"}
        /\ deletable'[j] = deletable[j] \cup ({t} \X Outdated(t))
        /\ UNCHANGED <<world, files, state>>
    BY <1>1, <1>8 DEF ListDirectory, TypeOK
  <2>2. \A u \in Task : state[j][u] = "none"
    BY <2>1 DEF NoneBefore
  <2>3. \A u \in Mine(j), n \in Version :
          <<u, n>> \in deletable'[j] => <<u, n>> \in deletable[j] \/ link[u] # n
    BY <2>1 DEF Outdated
  <2> QED BY <1>1, <2>1, <2>2, <2>3, MineNone DEF files, world
<1>9. ASSUME NEW t \in Task, NEW n \in Version, Remove(j, t, n) PROVE MineInv(j)'
  <2>1. /\ phase[j] = "rm" /\ <<t, n>> \in deletable[j]
        /\ \A u \in Task, m \in Version : out'[u][m] = IF u = t /\ m = n THEN {} ELSE out[u][m]
        /\ deletable'[j] \subseteq deletable[j] /\ UNCHANGED <<world, link, phase, state>>
    BY <1>1, <1>9 DEF Remove, TypeOK
  <2>2. \A u \in Task : state[j][u] = "none"
    BY <2>1 DEF NoneBefore
  <2>3. \A u \in Mine(j), m \in Version : link[u] = m => out'[u][m] = out[u][m]
    BY <1>1, <2>1 DEF MineInv, ListedNotLinked
  <2> QED BY <1>1, <2>1, <2>2, <2>3, MineNone DEF world
<1> QED BY <1>3, <1>5, <1>6, <1>7, <1>8, <1>9 DEF Clean

-----------------------------------------------------------------------------
(* Work on a task that other jobs touch as well.                           *)
LEMMA MineElsewhere ==
  ASSUME OwnInv, NEW j \in Job, NEW t \in Task \ Mine(j),
         \/ CheckComplete(j, t) \/ LookupFails(j, t) \/ BeginTask(j, t) \/ ReadInputs(j, t)
         \/ TaskFails(j, t) \/ MoveOutput(j, t) \/ FindLink(j, t) \/ RemoveLink(j, t)
         \/ MakeLink(j, t) \/ Retry(j, t)
  PROVE  MineInv(j)'
<1> USE DEF OwnInv, NameInv
<1>1. Mine(j) \subseteq Task /\ TypeOK /\ day \in Int /\ dump \in Int
  BY MineTasks, OwnTypes DEF JobInv
<1>2. /\ UNCHANGED <<day, dump, phase, today, deletable>>
      /\ \A u \in Task : u # t => /\ out'[u] = out[u] /\ link'[u] = link[u]
                                  /\ name'[j][u] = name[j][u] /\ state'[j][u] = state[j][u]
  BY <1>1 DEF CheckComplete, LookupFails, BeginTask, ReadInputs, TaskFails, MoveOutput, FindLink,
     RemoveLink, MakeLink, Retry, Become, TypeOK, files, world
<1>3. \A u \in Mine(j) : u # t
  OBVIOUS
<1> QED BY <1>1, <1>2, <1>3, MineQuiet

LEMMA MineQuietWork ==
  ASSUME OwnInv, NEW j \in Job, NEW t \in Task,
         \/ Expand(j, t)
         \/ t \in Mine(j) /\ \/ LookupFails(j, t) \/ BeginTask(j, t) \/ ReadInputs(j, t)
                             \/ TaskFails(j, t) \/ Retry(j, t)
  PROVE  MineInv(j)'
<1> USE DEF OwnInv, NameInv
<1>1. /\ UNCHANGED <<out, link, name, today, day, dump, phase, deletable>>
      /\ day \in Int /\ dump \in Int /\ Mine(j) \subseteq Task /\ TypeOK
  BY OwnTypes, MineTasks
     DEF LookupFails, Expand, BeginTask, ReadInputs, TaskFails, Retry, files, world, JobInv
<1>2. CASE Expand(j, t)
  <2>1. \A u \in Task : \/ state'[j][u] = state[j][u]
                        \/ state[j][u] \in Unbuilt /\ state'[j][u] \in Unbuilt
                        \/ state'[j][u] = "wanted"
    BY <1>1, <1>2 DEF Expand, TypeOK, Unbuilt
  <2> QED BY <1>1, <2>1, MineQuiet
<1>3. CASE t \in Mine(j) /\ \/ LookupFails(j, t) \/ BeginTask(j, t) \/ ReadInputs(j, t)
                            \/ TaskFails(j, t) \/ Retry(j, t)
  <2>1. state[j][t] # "refused"
    BY <1>3 DEF MineInv, NeverRefused
  <2>2. PICK s \in Unbuilt \cup {"unknown"} :
          Become(j, t, s) /\ (s # "unknown" => state[j][t] \in Unbuilt)
    BY <1>3, <2>1 DEF LookupFails, BeginTask, Ready, ReadInputs, TaskFails, Retry, Unbuilt
  <2>3. s \in Status
    BY DEF Unbuilt, Status, Working
  <2>4. \A u \in Mine(j) : \/ state'[j][u] = state[j][u]
                           \/ state[j][u] \in Unbuilt /\ state'[j][u] \in Unbuilt
                           \/ state'[j][u] = "unknown"
    BY <1>1, <2>2, <2>3, StatusStep
  <2> QED BY <1>1, <2>4, MineQuiet
<1> QED BY <1>2, <1>3

LEMMA MineLookUp ==
  ASSUME OwnInv, NEW j \in Job, NEW t \in Mine(j), CheckComplete(j, t)
  PROVE  MineInv(j)'
<1> USE DEF OwnInv, NameInv
<1> DEFINE s == IF Exists(t, LookUp(j, t)) THEN "done" ELSE "found"
<1>1. t \in Task /\ Mine(j) \subseteq Task /\ TypeOK
  BY MineTasks DEF JobInv
<1>2. Become(j, t, s) /\ name' = [name EXCEPT ![j][t] = LookUp(j, t)]
  BY DEF CheckComplete
<1>3. UNCHANGED <<out, link, today, day, dump, phase, deletable>> /\ phase[j] = "update"
  BY DEF CheckComplete, files, world
<1>4. LookUp(j, t) \in Version /\ LookUp(j, t) # None
  BY <1>1, OwnTypes, Versions DEF LookUp, TypeOK
<1>5. /\ s \in {"done", "found"}
      /\ s = "found" => out[t][LookUp(j, t)] = {}
      /\ s = "done" => Exists(t, LookUp(j, t))
  BY <1>4 DEF Exists
<1> HIDE DEF s
<1>6. s \in Status /\ s \notin Linking
  BY <1>5 DEF Status, Linking
<1>7. /\ state'[j][t] = s /\ name'[j][t] = LookUp(j, t)
      /\ \A u \in Mine(j) : u # t => state'[j][u] = state[j][u] /\ name'[j][u] = name[j][u]
  BY <1>1, <1>2, <1>6, StatusStep DEF TypeOK
<1> USE DEF MineInv
<1>8. LinkExists(j)' /\ OutputMoved(j)' /\ ListedNotLinked(j)'
  BY <1>3, <1>6, <1>7 DEF LinkExists, OutputMoved, ListedNotLinked, Exists
<1>9. NotBuilt(j)'
  BY <1>3, <1>5, <1>7 DEF NotBuilt, Unbuilt
<1>10. NeverRefused(j)' /\ LinkRemoved(j)'
  BY <1>3, <1>5, <1>7 DEF NeverRefused, LinkRemoved
<1>11. DoneExists(j)'
  BY <1>3, <1>5, <1>7 DEF DoneExists, Exists
<1>12. OutputsOld(j)' /\ TodayNewest(j)'
  BY <1>3 DEF OutputsOld, TodayNewest, VersionNow
<1>13. NamesNewest(j)'
  <2>1. \A n \in Version : out[t][n] # {} => n <= LookUp(j, t)
    BY <1>3 DEF OutputsOld, TodayNewest, VersionNow, LookUp
  <2> QED BY <1>3, <1>7, <2>1 DEF NamesNewest
<1> QED BY <1>8, <1>9, <1>10, <1>11, <1>12, <1>13

(* The new output is the newest of its task.                               *)
LEMMA MineMove ==
  ASSUME OwnInv, NEW j \in Job, NEW t \in Mine(j), MoveOutput(j, t)
  PROVE  MineInv(j)'
<1> USE DEF OwnInv, NameInv, JobInv
<1>0. t \in Task /\ Mine(j) \subseteq Task
  BY MineTasks
<1>1. /\ UNCHANGED <<name, link, day, dump, today, phase, deletable>>
      /\ state[j][t] = "running" /\ phase[j] = "update" /\ deletable[j] = {}
      /\ name[j][t] \in Version /\ name[j][t] # None /\ made[j][t] # {}
  <2>1. /\ state[j][t] = "running"
        /\ UNCHANGED <<name, link, day, dump, today, phase, deletable>>
    BY DEF MoveOutput, world
  <2>2. state[j][t] \in Named /\ state[j][t] \in Working
    BY <2>1 DEF Named, Working
  <2> QED BY <1>0, <2>1, <2>2, OwnTypes DEF WorkInUpdate, InputsRead, ListedBefore
<1>2. \A u \in Task, n \in Version :
        out'[u][n] = IF u = t /\ n = name[j][t] THEN made[j][t] ELSE out[u][n]
  BY <1>0, <1>1 DEF MoveOutput, Path, TypeOK
<1>3. /\ state'[j][t] \in {"moved", "done"}
      /\ \A u \in Task : u # t => state'[j][u] = state[j][u]
  <2>1. PICK s \in {"moved", "done"} : Become(j, t, s)
    BY DEF MoveOutput
  <2>2. {"moved", "done"} \subseteq Status
    BY DEF Status, Working, Linking
  <2> QED BY <1>0, <2>1, <2>2, StatusStep
<1>4. \A u \in Mine(j), n \in Version : out[u][n] # {} => out'[u][n] # {}
  BY <1>0, <1>1, <1>2
<1> USE DEF MineInv
<1>5. LinkExists(j)'
  <2> SUFFICES ASSUME NEW u \in Mine(j), link[u] # None PROVE out'[u][link[u]] # {}
    BY <1>1 DEF LinkExists, Exists
  <2>1. link[u] \in Version /\ out[u][link[u]] # {}
    BY <1>0 DEF LinkExists, Exists, TypeOK
  <2> QED BY <1>4, <2>1
<1>6. ListedNotLinked(j)'
  BY <1>1 DEF ListedNotLinked
<1>7. ASSUME NEW u \in Mine(j),
             state'[j][u] \in Linking \cup {"done"}
      PROVE  name[j][u] # None /\ out'[u][name[j][u]] # {}
  <2>1. CASE u = t
    BY <1>0, <1>1, <1>2, <2>1
  <2>2. CASE u # t
    <3>1. state[j][u] \in Linking \cup {"done"} /\ Linking \cup {"done"} \subseteq Named
      BY <1>0, <1>3, <1>7, <2>2 DEF Named, Working
    <3>2. name[j][u] \in Version /\ Exists(u, name[j][u])
      BY <1>0, <3>1, OwnTypes DEF DoneExists, OutputMoved
    <3> QED BY <1>4, <3>2 DEF Exists
  <2> QED BY <2>1, <2>2
<1>8. OutputMoved(j)' /\ DoneExists(j)'
  BY <1>1, <1>7 DEF OutputMoved, DoneExists, Exists
<1>9. NotBuilt(j)'
  <2> SUFFICES ASSUME NEW u \in Mine(j), state'[j][u] \in Unbuilt
               PROVE  out'[u][name[j][u]] = {}
    BY <1>1 DEF NotBuilt
  <2>1. u # t /\ state[j][u] \in Unbuilt /\ Unbuilt \subseteq Named
    BY <1>0, <1>3 DEF Unbuilt, Named, Working
  <2>2. name[j][u] \in Version /\ out[u][name[j][u]] = {}
    BY <1>0, <2>1, OwnTypes DEF NotBuilt
  <2> QED BY <1>0, <1>2, <2>1, <2>2
<1>10. NeverRefused(j)' /\ LinkRemoved(j)'
  BY <1>0, <1>1, <1>3 DEF NeverRefused, LinkRemoved
<1>11. name[j][t] <= VersionNow(t) /\ (t \in Daily => name[j][t] = today[j])
  BY <1>0, <1>1 DEF TodayNewest, VersionNow, DatesKnown, DumpsKnown
<1>12. OutputsOld(j)'
  BY <1>0, <1>1, <1>2, <1>11 DEF OutputsOld, VersionNow
<1>13. TodayNewest(j)'
  <2> SUFFICES ASSUME NEW u \in Mine(j) \cap Daily, NEW n \in Version, out'[u][n] # {}
               PROVE  n <= today[j]
    BY <1>1 DEF TodayNewest
  <2>1. CASE u = t /\ n = name[j][t]
    BY <1>11, <2>1, OwnTypes
  <2>2. CASE ~(u = t /\ n = name[j][t])
    BY <1>0, <1>1, <1>2, <2>2 DEF TodayNewest
  <2> QED BY <2>1, <2>2
<1>14. NamesNewest(j)'
  <2> SUFFICES ASSUME NEW u \in Mine(j), state'[j][u] \in Named, NEW n \in Version,
                      out'[u][n] # {}
               PROVE  n <= name[j][u]
    BY <1>1 DEF NamesNewest
  <2>1. state[j][u] \in Named
    BY <1>0, <1>1, <1>3 DEF Named, Working
  <2>2. CASE u = t /\ n = name[j][t]
    BY <1>0, <2>1, <2>2, OwnTypes
  <2>3. CASE ~(u = t /\ n = name[j][t])
    BY <1>0, <1>2, <2>1, <2>3 DEF NamesNewest
  <2> QED BY <2>2, <2>3
<1> QED BY <1>5, <1>6, <1>8, <1>9, <1>10, <1>12, <1>13, <1>14

(* create_symlink finds what it expects.                                   *)
LEMMA LinkSteps ==
  ASSUME OwnInv, NEW j \in Job, NEW t \in Mine(j),
         FindLink(j, t) \/ RemoveLink(j, t) \/ MakeLink(j, t)
  PROVE  /\ state[j][t] \in Linking /\ phase[j] = "update" /\ deletable[j] = {}
         /\ UNCHANGED <<out, name, today, day, dump, phase, deletable>>
         /\ \A u \in Task : u # t => link'[u] = link[u]
         /\ \A u \in Task : u # t => state'[j][u] = state[j][u]
         /\ \/ state'[j][t] = "remove" /\ link[t] # None /\ link' = link
            \/ state'[j][t] = "symlink" /\ link'[t] = None
            \/ state'[j][t] = "done" /\ link[t] = None /\ link'[t] = name[j][t]
<1> USE DEF OwnInv, NameInv, JobInv
<1>0. t \in Task /\ Mine(j) \subseteq Task
  BY MineTasks
<1>1. {"remove", "symlink", "done"} \subseteq Status
  BY DEF Status, Working, Linking
<1>2. /\ state[j][t] \in Linking /\ UNCHANGED <<out, name, today, day, dump, phase, deletable>>
      /\ \A u \in Task : u # t => link'[u] = link[u]
  BY <1>0 DEF FindLink, RemoveLink, MakeLink, Linking, TypeOK, files, world
<1>3. phase[j] = "update" /\ deletable[j] = {}
  BY <1>0, <1>2 DEF WorkInUpdate, ListedBefore, Working
<1>4. CASE FindLink(j, t)
  <2>1. CASE Exists(t, link[t])
    BY <1>0, <1>1, <1>2, <1>3, <1>4, <2>1, StatusStep DEF FindLink, Exists, files
  <2>2. CASE ~Exists(t, link[t])
    <3>1. link[t] = None
      BY <2>2 DEF MineInv, LinkExists
    <3> QED BY <1>0, <1>1, <1>2, <1>3, <1>4, <2>2, <3>1, StatusStep DEF FindLink, files
  <2> QED BY <2>1, <2>2
<1>5. CASE RemoveLink(j, t)
  <2>1. link[t] # None
    BY <1>5 DEF RemoveLink, MineInv, LinkRemoved
  <2>2. Become(j, t, "symlink") /\ link'[t] = None
    BY <1>0, <1>5, <2>1 DEF RemoveLink, TypeOK
  <2> QED BY <1>0, <1>1, <1>2, <1>3, <2>2, StatusStep
<1>6. CASE MakeLink(j, t)
  <2>1. link[t] = None
    BY <1>6 DEF MakeLink, MineInv, LinkRemoved
  <2>2. Become(j, t, "done") /\ link'[t] = name[j][t]
    BY <1>0, <1>6, <2>1 DEF MakeLink, Path, TypeOK
  <2> QED BY <1>0, <1>1, <1>2, <1>3, <2>1, <2>2, StatusStep
<1> QED BY <1>4, <1>5, <1>6

LEMMA MineLink ==
  ASSUME OwnInv, NEW j \in Job, NEW t \in Mine(j),
         FindLink(j, t) \/ RemoveLink(j, t) \/ MakeLink(j, t)
  PROVE  MineInv(j)'
<1>1. /\ state[j][t] \in Linking /\ deletable[j] = {}
      /\ UNCHANGED <<out, name, today, day, dump, phase, deletable>>
      /\ \A u \in Mine(j) : u # t => link'[u] = link[u]
      /\ \A u \in Mine(j) : u # t => state'[j][u] = state[j][u]
      /\ \/ state'[j][t] = "remove" /\ link[t] # None /\ link' = link
         \/ state'[j][t] = "symlink" /\ link'[t] = None
         \/ state'[j][t] = "done" /\ link[t] = None /\ link'[t] = name[j][t]
  BY LinkSteps, MineTasks
<1> USE DEF OwnInv, MineInv
<1>2. Exists(t, name[j][t])
  BY <1>1 DEF OutputMoved
<1>3. LinkExists(j)' /\ OutputMoved(j)' /\ ListedNotLinked(j)' /\ DoneExists(j)'
  BY <1>1, <1>2 DEF LinkExists, OutputMoved, ListedNotLinked, DoneExists, Exists
<1>4. NotBuilt(j)' /\ NeverRefused(j)' /\ LinkRemoved(j)'
  BY <1>1 DEF NotBuilt, NeverRefused, LinkRemoved, Unbuilt
<1>5. OutputsOld(j)' /\ TodayNewest(j)'
  BY <1>1 DEF OutputsOld, TodayNewest, VersionNow
<1>6. NamesNewest(j)'
  BY <1>1 DEF NamesNewest, Named, Working
<1> QED BY <1>3, <1>4, <1>5, <1>6

-----------------------------------------------------------------------------
LEMMA OwnInvNext == OwnInv /\ [Next]_vars => OwnInv'
<1> SUFFICES ASSUME OwnInv, [Next]_vars PROVE OwnInv'
  OBVIOUS
<1>1. NameInv' /\ JobInv
  BY NameInvNext DEF OwnInv, NameInv
<1>2. day \in Int /\ dump \in Int /\ \A k \in Job : Mine(k) \subseteq Task
  BY <1>1, OwnTypes, MineTasks
<1>3. CASE UNCHANGED vars \/ NewDay \/ NewDump
  <2>1. /\ UNCHANGED <<out, link, name, today, deletable, phase, state>>
        /\ day' \in Int /\ day <= day' /\ dump' \in Int /\ dump <= dump'
    BY <1>2, <1>3 DEF vars, local, files, world, NewDay, NewDump
  <2>2. \A k \in Job : MineInv(k)'
    BY <1>1, <2>1, MineQuiet DEF OwnInv
  <2>3. Theirs'
    BY <2>1 DEF OwnInv, Theirs
  <2> QED BY <1>1, <2>2, <2>3 DEF OwnInv
<1>4. ASSUME NEW j \in Job, Proceed(j) \/ GoWrong(j) PROVE OwnInv'
  <2>1. Theirs'
    BY <1>1, <1>4, TheirsNext DEF OwnInv
  <2>2. MineInv(j)'
    BY <1>4, MinePhases, MineElsewhere, MineQuietWork, MineLookUp, MineMove, MineLink
       DEF Proceed, GoWrong, Schedule, Work
  <2>3. ASSUME NEW k \in Job, k # j PROVE MineInv(k)'
    <3>1. /\ UNCHANGED <<day, dump>>
          /\ \A t \in Task \ Touches(j) : out'[t] = out[t] /\ link'[t] = link[t]
          /\ phase'[k] = phase[k] /\ today'[k] = today[k] /\ deletable'[k] = deletable[k]
          /\ name'[k] = name[k] /\ state'[k] = state[k]
      BY <1>1, <1>4, <2>3, Frame DEF OwnInv
    <3>2. Mine(k) \subseteq Task \ Touches(j)
      BY <1>2, <2>3, MineTasks
    <3> QED BY <1>1, <1>2, <3>1, <3>2, MineQuiet DEF OwnInv
  <2> QED BY <1>1, <2>1, <2>2, <2>3 DEF OwnInv
<1> QED BY <1>3, <1>4 DEF Next

-----------------------------------------------------------------------------
(* "current" never points to an output that is not there, for all that     *)
(* only one job touches, whatever crashes and fails (cli.py:25-28).        *)
THEOREM LinksExist == Spec => []CurrentExists
<1>1. Init => OwnInv
  BY OwnInvInit
<1>2. OwnInv /\ [Next]_vars => OwnInv'
  BY OwnInvNext
<1>3. OwnInv => CurrentExists
  BY DEF OwnInv, MineInv, LinkExists, CurrentExists, Owned
<1> QED BY <1>1, <1>2, <1>3, PTL DEF Spec

(* Who steps on what is touched by only one job is that job.               *)
LEMMA StepOnOwned ==
  ASSUME NEW j \in Job, NEW t \in Touches(j), t \in Owned
  PROVE  t \in Mine(j)
BY DEF Owned, Mine

(* Which steps of Releases the steps of the jobs are.                      *)
LEMMA StepsOfReleases ==
  ASSUME OwnInv, Next
  PROVE  Promise!ReleasesNext \/ UNCHANGED Promise!releases
<1> USE DEF OwnInv, NameInv, JobInv
<1> DEFINE Same == \A t \in Owned : out'[t] = out[t] /\ link'[t] = link[t]
<1>1. Same => UNCHANGED Promise!releases
  BY DEF Promise!releases
<1> HIDE DEF Same
<1>2. Owned \subseteq Task
  BY MineTasks DEF Owned
<1>3. ASSUME NEW j \in Job, NEW t \in Task, NEW n \in Version, Remove(j, t, n)
      PROVE  Promise!ReleasesNext \/ Same
  <2>1. /\ <<t, n>> \in deletable[j] /\ UNCHANGED link
        /\ \A u \in Task : out'[u] = IF u = t THEN [out[t] EXCEPT ![n] = {}] ELSE out[u]
    BY <1>3 DEF Remove, TypeOK
  <2>2. CASE t \notin Owned
    BY <1>2, <2>1, <2>2 DEF Same
  <2>3. CASE t \in Owned
    <3>1. t \in Touches(j)
      BY <1>3, MineTasks DEF Remove, Theirs
    <3>2. link[t] # n
      BY <2>1, <2>3, <3>1, StepOnOwned DEF MineInv, ListedNotLinked
    <3>3. Promise!Discard(t, n)
      BY <1>2, <2>1, <2>3, <3>2 DEF Promise!Discard
    <3> QED BY <2>3, <3>3 DEF Promise!ReleasesNext
  <2> QED BY <2>2, <2>3
<1>4. ASSUME NEW j \in Job, NEW t \in Task, MoveOutput(j, t)
      PROVE  Promise!ReleasesNext \/ Same
  <2>1. /\ state[j][t] = "running" /\ UNCHANGED link
        /\ \A u \in Task :
             out'[u] = IF u = t THEN [out[t] EXCEPT ![name[j][t]] = made[j][t]] ELSE out[u]
    BY <1>4 DEF MoveOutput, Path, TypeOK
  <2>2. CASE t \notin Owned
    BY <1>2, <2>1, <2>2 DEF Same
  <2>3. CASE t \in Owned
    <3>1. t \in Mine(j)
      BY <2>1, <2>3, StepOnOwned DEF Theirs
    <3>2. PICK n \in Version, c \in Content \ {{}} :
            n = name[j][t] /\ c = made[j][t] /\ out[t][n] = {}
      BY <2>1, <3>1 DEF TypeOK, NamesKnown, InputsRead, Named, Working, MineInv, NotBuilt, Unbuilt
    <3>3. link[t] # n
      BY <3>1, <3>2, Versions DEF MineInv, LinkExists, Exists
    <3>4. Promise!Publish(t, n, c)
      BY <1>2, <2>1, <2>3, <3>2, <3>3 DEF Promise!Publish
    <3>5. Promise!ReleasesNext
      BY <2>3, <3>4 DEF Promise!ReleasesNext
    <3> QED BY <3>5
  <2> QED BY <2>2, <2>3
<1>5. ASSUME NEW j \in Job, NEW t \in Task, FindLink(j, t) \/ RemoveLink(j, t) \/ MakeLink(j, t)
      PROVE  Promise!ReleasesNext \/ Same
  <2>1. /\ UNCHANGED out /\ state[j][t] \in Linking
        /\ \A u \in Task : u # t => link'[u] = link[u]
    BY <1>5 DEF FindLink, RemoveLink, MakeLink, Linking, TypeOK, files
  <2>2. CASE t \notin Owned
    BY <1>2, <2>1, <2>2 DEF Same
  <2>3. CASE t \in Owned
    <3>1. t \in Mine(j)
      BY <2>1, <2>3, StepOnOwned DEF Theirs, Linking
    <3>2. CASE link'[t] = link[t]
      BY <1>2, <2>1, <3>2 DEF Same
    <3>3. CASE link'[t] = None
      <4>1. Promise!Unpoint(t)
        BY <1>2, <2>1, <2>3, <3>3 DEF Promise!Unpoint
      <4> QED BY <2>3, <4>1 DEF Promise!ReleasesNext
    <3>4. CASE link[t] = None /\ link'[t] = name[j][t]
      <4>1. state[j][t] \in Named /\ Exists(t, name[j][t])
        BY <2>1, <3>1 DEF MineInv, OutputMoved, Named, Working
      <4>2. PICK n \in Version : n = name[j][t]
        BY <4>1 DEF NamesKnown
      <4>3. \A m \in Version : out[t][m] # {} => m <= n
        BY <3>1, <4>1, <4>2 DEF MineInv, NamesNewest
      <4>4. Promise!Point(t, n)
        BY <1>2, <2>1, <2>3, <3>4, <4>1, <4>2, <4>3 DEF Promise!Point, Promise!Present, Exists
      <4>5. Promise!ReleasesNext
        BY <2>3, <4>4 DEF Promise!ReleasesNext
      <4> QED BY <4>5
    <3> QED BY <1>5, <3>1, <3>2, <3>3, <3>4, LinkSteps
  <2> QED BY <2>2, <2>3
<1>6. UNCHANGED files => Same
  BY DEF files, Same
<1>7. CASE NewDay \/ NewDump
  BY <1>1, <1>6, <1>7 DEF NewDay, NewDump
<1>8. ASSUME NEW j \in Job, Proceed(j) \/ GoWrong(j)
      PROVE  Promise!ReleasesNext \/ Same
  <2>1. CASE Clean(j) \/ StartUpdate(j) \/ FinishUpdate(j) \/ Restart(j) \/ Crash(j)
    BY <1>3, <1>6, <2>1 DEF Clean, StartCleanup, ListDirectory, StartUpdate, FinishUpdate,
       Restart, Crash
  <2>2. CASE Schedule(j) \/ \E t \in Task : LookupFails(j, t) \/ TaskFails(j, t) \/ Retry(j, t)
    BY <1>6, <2>2 DEF Schedule, CheckComplete, Expand, LookupFails, TaskFails, Retry
  <2>3. CASE Work(j)
    BY <1>4, <1>5, <1>6, <2>3 DEF Work, BeginTask, ReadInputs
  <2> QED BY <1>8, <2>1, <2>2, <2>3 DEF Proceed, GoWrong
<1> QED BY <1>1, <1>7, <1>8 DEF Next

(* Whoever opens an output that only one job touches through its link gets *)
(* a complete one that stays as it is, the newest there is, whatever       *)
(* crashes and fails, and whatever other jobs do meanwhile: the directory  *)
(* implements Releases (base.py:117-127, cli.py:225-241).                  *)
THEOREM DirectoryKeepsPromise == Spec => KeepsPromise
<1>1. Init => OwnInv /\ Promise!ReleasesInit
  <2>1. Owned \subseteq Task
    BY MineTasks DEF Owned
  <2> QED BY <2>1, OwnInvInit DEF Init, Promise!ReleasesInit
<1>2. OwnInv /\ [Next]_vars => OwnInv'
  BY OwnInvNext
<1>3. OwnInv /\ [Next]_vars => [Promise!ReleasesNext]_(Promise!releases)
  <2>1. CASE UNCHANGED vars
    BY <2>1 DEF vars, files, Promise!releases
  <2> QED BY <2>1, StepsOfReleases
<1> QED BY <1>1, <1>2, <1>3, PTL DEF Spec, KeepsPromise, Promise!ReleasesSpec

(* A cleanup removes nothing that is linked at that moment, if only it     *)
(* touches it, and nothing from a directory with a .labekeep               *)
(* (cli.py:229-241).                                                       *)
THEOREM CleanupIsSafe == Spec => RemovesOnlyOutdated
<1> DEFINE Safe == \A t \in Owned, n \in Version :
                     out[t][n] # {} /\ out'[t][n] = {} => t \notin Keep /\ link[t] # n
<1>1. Init => OwnInv
  BY OwnInvInit
<1>2. OwnInv /\ [Next]_vars => OwnInv'
  BY OwnInvNext
<1>3. OwnInv /\ [Next]_vars => [Safe]_vars
  <2> SUFFICES ASSUME OwnInv, Next, NEW t \in Owned, NEW n \in Version,
                      out[t][n] # {}, out'[t][n] = {}
               PROVE  t \notin Keep /\ link[t] # n
    OBVIOUS
  <2> USE DEF OwnInv, NameInv, JobInv
  <2>1. out' # out /\ t \in Task
    BY MineTasks DEF Owned
  <2>2. ASSUME NEW j \in Job, NEW u \in Task, NEW m \in Version, Remove(j, u, m)
        PROVE  t \notin Keep /\ link[t] # n
    <3>1. <<u, m>> \in deletable[j] /\ out' = [out EXCEPT ![u][m] = {}] /\ t \in Touches(j)
      BY <2>1, <2>2, MineTasks DEF Remove, Theirs
    <3>2. t = u /\ n = m
      BY <2>1, <3>1 DEF TypeOK
    <3>3. link[t] # n
      BY <3>1, <3>2, StepOnOwned DEF MineInv, ListedNotLinked
    <3>4. <<t, n>>[1] \notin Keep
      BY <3>1, <3>2 DEF KeptNotListed
    <3> QED BY <3>3, <3>4
  <2>3. ASSUME NEW j \in Job, NEW u \in Task, MoveOutput(j, u) PROVE FALSE
    <3>1. out' = [out EXCEPT ![u][name[j][u]] = made[j][u]] /\ made[j][u] # {}
      BY <2>3 DEF MoveOutput, Path, InputsRead
    <3> QED BY <2>1, <3>1 DEF TypeOK
  <2> QED
    BY <2>1, <2>2, <2>3 DEF Next, NewDay, NewDump, Proceed, GoWrong, Clean, Schedule, Work,
       Crash, StartCleanup, ListDirectory, StartUpdate, CheckComplete, LookupFails, Expand,
       BeginTask, ReadInputs, TaskFails, FindLink, RemoveLink, MakeLink, Retry, FinishUpdate,
       Restart, files
<1> QED BY <1>1, <1>2, <1>3, PTL DEF Spec, RemovesOnlyOutdated

LEMMA LinksGone ==
  ASSUME OwnInv, Next, NEW j \in Job, NEW t \in Mine(j),
         state[j][t] = "moved", state'[j][t] = "symlink"
  PROVE  link[t] = None
<1> USE DEF OwnInv, NameInv, JobInv
<1>1. /\ t \in Task /\ state[j] # state'[j]
      /\ state'[j][t] \notin {"none", "wanted", "pending", state[j][t]}
  BY MineTasks
<1>2. CASE FindLink(j, t)
  <2>1. state'[j][t] = IF Exists(t, link[t]) THEN "remove" ELSE "symlink"
    BY <1>1, <1>2 DEF FindLink, Become, TypeOK
  <2> QED BY <2>1 DEF MineInv, LinkExists
<1>3. ASSUME NEW u \in Task, FindLink(j, u) \/ RemoveLink(j, u) \/ MakeLink(j, u)
      PROVE  link[t] = None
  BY <1>1, <1>2, <1>3 DEF FindLink, RemoveLink, MakeLink, Become, TypeOK
<1>4. ASSUME NEW u \in Task, NEW s \in Status \ {"symlink"}, Become(j, u, s) PROVE FALSE
  BY <1>1, <1>4, StatusStep
<1>5. {"done", "found", "unknown", "started", "failed", "running", "moved", "pending"}
        \subseteq Status \ {"symlink"}
  BY DEF Status, Working, Linking
<1>6. CASE Exit(j) \/ StartUpdate(j) \/ \E u \in Task : Expand(j, u)
  <2>1. CASE Exit(j) \/ StartUpdate(j)
    BY <1>1, <2>1 DEF Exit, StartUpdate, PreviousEnded, TypeOK
  <2>2. ASSUME NEW u \in Task, Expand(j, u) PROVE FALSE
    BY <1>1, <2>2 DEF Expand, TypeOK
  <2> QED BY <1>6, <2>1, <2>2
<1>7. CASE \E u \in Task : BeginTask(j, u) \/ ReadInputs(j, u) \/ MoveOutput(j, u)
  BY <1>4, <1>5, <1>7 DEF BeginTask, ReadInputs, MoveOutput
<1>8. CASE \E u \in Task : \/ CheckComplete(j, u) \/ LookupFails(j, u) \/ TaskFails(j, u)
                           \/ Retry(j, u)
  BY <1>4, <1>5, <1>8 DEF CheckComplete, LookupFails, TaskFails, Retry
<1>9. CASE UNCHANGED state
  BY <1>1, <1>9
<1>10. CASE NewDay \/ NewDump \/ Clean(j) \/ FinishUpdate(j) \/ Crash(j) \/ Restart(j)
  BY <1>6, <1>9, <1>10 DEF NewDay, NewDump, local, Clean, StartCleanup, ListDirectory, Remove,
     FinishUpdate, Crash, Restart
<1>11. \A k \in Job : Proceed(k) \/ GoWrong(k) => k = j
  BY <1>1, Frame
<1> QED
  BY <1>3, <1>6, <1>7, <1>8, <1>10, <1>11 DEF Next, Proceed, GoWrong, Schedule, Work

(* create_symlink reaches os.symlink only when there is no link            *)
(* (base.py:118-121), for all that only one job touches: os.path.exists    *)
(* follows the link, and links lead somewhere.                             *)
THEOREM OwnedLinksOverwritten ==
  Spec => [][\A j \in Job : \A t \in Mine(j) :
               state[j][t] = "moved" /\ state'[j][t] = "symlink" => link[t] = None]_vars
<1> DEFINE Removed == \A j \in Job : \A t \in Mine(j) :
                        state[j][t] = "moved" /\ state'[j][t] = "symlink" => link[t] = None
<1>1. Init => OwnInv
  BY OwnInvInit
<1>2. OwnInv /\ [Next]_vars => OwnInv'
  BY OwnInvNext
<1>3. OwnInv /\ [Next]_vars => [Removed]_vars
  BY LinksGone
<1>4. Spec => [][Removed]_vars
  <2> HIDE DEF Removed
  <2> QED BY <1>1, <1>2, <1>3, PTL DEF Spec
<1> QED BY <1>4

(* One job alone overwrites all links.                                     *)
COROLLARY AloneOverwritesLinks ==
  ASSUME NEW i, Job = {i}
  PROVE  Spec => OverwritesLinks
<1> DEFINE Removed == \A j \in Job, t \in Task :
                        state[j][t] = "moved" /\ state'[j][t] = "symlink" => link[t] = None
<1>1. Init => OwnInv
  BY OwnInvInit
<1>2. OwnInv /\ [Next]_vars => OwnInv'
  BY OwnInvNext
<1>3. OwnInv /\ [Next]_vars => [Removed]_vars
  <2>1. OwnInv => \A t \in Task : state[i][t] = "moved" => t \in Mine(i)
    BY DEF OwnInv, Theirs, Mine
  <2> QED BY <2>1, LinksGone
<1>4. Spec => [][Removed]_vars
  <2> HIDE DEF Removed
  <2> QED BY <1>1, <1>2, <1>3, PTL DEF Spec
<1> QED BY <1>4 DEF OverwritesLinks

-----------------------------------------------------------------------------
(* If a task that reads by process substitution has its inputs to itself,  *)
(* no input goes missing under it, and every output is built from all of   *)
(* its inputs (base.py:216-220, tasks.py:415-446).                         *)
THEOREM OwnedInputsBuildAll ==
  ASSUME \A j \in Job : \A t \in Lenient \cap Touches(j) : Requires[t] \subseteq Mine(j)
  PROVE  Spec => []BuiltFromAll
<1> DEFINE Inv == OwnInv /\ InputsDone /\ BuiltOf(Task) /\ MadeOf(Task)
<1>1. Init => Inv
  BY OwnInvInit DEF Init, InputsDone, BuiltOf, MadeOf
<1>2. ASSUME Inv, [Next]_vars PROVE Inv'
  <2>1. OwnInv' /\ OnlyStarted
    BY <1>2, OwnInvNext, ContentSteps DEF OwnInv, NameInv
  <2>2. \A t \in Task : Requires[t] \subseteq Task
    BY StoreAssumption
  <2>3. NoneMissing(Task)
    <3> SUFFICES ASSUME NEW j \in Job, NEW t \in Task, state[j][t] = "started", t \in Lenient,
                        NEW d \in Requires[t]
                 PROVE  Exists(d, name[j][d])
      BY DEF NoneMissing, Missing
    <3>1. state[j][d] = "done" /\ t \in Touches(j)
      BY <1>2 DEF InputsDone, OwnInv, Theirs
    <3> QED BY <1>2, <3>1 DEF OwnInv, MineInv, DoneExists
  <2>4. BuiltOf(Task)' /\ MadeOf(Task)'
    BY <1>2, <2>2, <2>3, BuiltNext DEF Closed, OwnInv, NameInv
  <2> QED BY <2>1, <2>4 DEF InputsDone, OnlyStarted
<1>3. Inv => BuiltFromAll
  BY DEF BuiltOf, BuiltFromAll, Names
<1> HIDE DEF Inv
<1> QED BY <1>1, <1>2, <1>3, PTL DEF Spec

(* One job alone builds every output from all of its inputs.               *)
COROLLARY AloneBuildsFromAll ==
  ASSUME NEW j, Job = {j}
  PROVE  Spec => []BuiltFromAll
<1>1. ASSUME NEW t \in Touches(j) PROVE Requires[t] \subseteq Mine(j)
  BY <1>1, MineTasks DEF Closed, Mine
<1> QED BY <1>1, OwnedInputsBuildAll

-----------------------------------------------------------------------------
(* A job that cleans up first.  What is not linked has been listed, so     *)
(* when the update begins every output of a linked task is the linked one. *)
Listed(j) == \A t \in Mine(j) \ Keep :
               phase[j] = "rm" \/ (phase[j] = "list" /\ t \notin todo[j]) =>
                 \A n \in Version : out[t][n] # {} /\ link[t] # n => <<t, n>> \in deletable[j]
Tidy(j) == \A t \in Mine(j) \cap Linked :
             phase[j] \in {"update", "restart"} /\ state[j][t] \notin Linking \cup {"done"} =>
               \A n \in Version : out[t][n] # {} => link[t] = n
DoneLinked(j) == \A t \in Mine(j) \cap Linked : state[j][t] = "done" => link[t] = name[j][t]

TidyInv(j) == Listed(j) /\ Tidy(j) /\ DoneLinked(j)

LEMMA TidyPhases ==
  ASSUME OwnInv, Keep \cap Linked = {}, NEW j \in Cleaner, TidyInv(j),
         \/ Clean(j) \/ StartUpdate(j) \/ FinishUpdate(j) \/ Crash(j) \/ Restart(j)
  PROVE  TidyInv(j)'
<1> USE DEF OwnInv, NameInv, JobInv
<1>1. j \in Job /\ Mine(j) \subseteq Task /\ Mine(j) \cap Linked \subseteq Mine(j) \ Keep
  BY StoreAssumption, MineTasks
<1>2. ASSUME \A t \in Task : state'[j][t] = "none", phase'[j] \notin {"update", "restart"}
      PROVE  Tidy(j)' /\ DoneLinked(j)'
  BY <1>1, <1>2 DEF Tidy, DoneLinked
<1>3. ASSUME phase[j] \notin {"update", "restart"}
      PROVE  \A t \in Task : state[j][t] = "none"
  BY <1>1, <1>3 DEF NoneBefore
<1>4. CASE Exit(j)
  <2>1. phase'[j] = "idle" /\ \A t \in Task : state'[j][t] = "none"
    BY <1>1, <1>4, ExitStep
  <2> QED BY <1>2, <2>1 DEF TidyInv, Listed
<1>5. CASE Crash(j) \/ Restart(j)
  BY <1>4, <1>5 DEF Crash, Restart
<1>6. CASE FinishUpdate(j)
  <2>1. phase[j] = "update" /\ phase'[j] = "restart" /\ UNCHANGED <<out, link, name, state>>
    BY <1>1, <1>6 DEF FinishUpdate, files, TypeOK
  <2> QED BY <2>1 DEF TidyInv, Listed, Tidy, DoneLinked
<1>7. CASE StartCleanup(j)
  <2>1. /\ phase[j] = "idle" /\ phase'[j] = "list" /\ todo'[j] = Task
        /\ UNCHANGED <<out, link, name, state>>
    BY <1>1, <1>7 DEF StartCleanup, PreviousEnded, files, TypeOK
  <2> QED BY <1>1, <1>2, <1>3, <2>1 DEF TidyInv, Listed
<1>8. ASSUME NEW t \in Task, ListDirectory(j, t) PROVE TidyInv(j)'
  <2>1. /\ phase[j] = "list" /\ t \in todo[j] /\ todo'[j] = todo[j] \ {t}
        /\ deletable'[j] = deletable[j] \cup ({t} \X Outdated(t))
        /\ phase'[j] = (IF todo[j] = {t} THEN "rm" ELSE "list")
        /\ UNCHANGED <<out, link, name, state>>
    BY <1>1, <1>8 DEF ListDirectory, files, TypeOK
  <2>2. Listed(j)'
    <3> SUFFICES ASSUME NEW u \in Mine(j) \ Keep, u \notin todo'[j],
                        NEW n \in Version, out[u][n] # {}, link[u] # n
                 PROVE  <<u, n>> \in deletable'[j]
      BY <2>1 DEF Listed
    <3>1. CASE u = t
      BY <2>1, <3>1, Versions DEF Outdated, Exists
    <3>2. CASE u # t
      BY <2>1, <3>2 DEF TidyInv, Listed
    <3> QED BY <3>1, <3>2
  <2> QED BY <1>2, <1>3, <2>1, <2>2 DEF TidyInv
<1>9. ASSUME NEW t \in Task, NEW n \in Version, Remove(j, t, n) PROVE TidyInv(j)'
  <2>1. /\ phase[j] = "rm" /\ UNCHANGED <<phase, link, name, state>>
        /\ deletable'[j] = deletable[j] \ {<<t, n>>}
        /\ \A u \in Task, m \in Version :
              out'[u][m] = IF u = t /\ m = n THEN {} ELSE out[u][m]
    BY <1>1, <1>9 DEF Remove, TypeOK
  <2>2. Listed(j)'
    BY <1>1, <2>1 DEF TidyInv, Listed
  <2> QED BY <1>2, <1>3, <2>1, <2>2 DEF TidyInv
<1>10. CASE StartUpdate(j)
  <2>1. /\ phase[j] = "rm" /\ deletable[j] = {} /\ phase'[j] = "update"
        /\ \A t \in Task : state'[j][t] \in {"wanted", "none"}
        /\ UNCHANGED <<out, link, name>>
    BY <1>1, <1>10, StoreAssumption DEF StartUpdate, files, TypeOK
  <2>2. Tidy(j)'
    <3>1. ASSUME NEW t \in Mine(j) \cap Linked, NEW n \in Version, out[t][n] # {}
          PROVE  link[t] = n
      BY <1>1, <2>1, <3>1 DEF TidyInv, Listed
    <3> QED BY <2>1, <3>1 DEF Tidy
  <2> QED BY <1>1, <2>1, <2>2 DEF TidyInv, Listed, DoneLinked
<1> QED BY <1>5, <1>6, <1>7, <1>8, <1>9, <1>10 DEF Clean

(* Steps that leave the outputs and links of a job alone.                  *)
LEMMA TidyQuiet ==
  ASSUME NEW j \in Job, TidyInv(j), phase'[j] = phase[j],
         \A t \in Mine(j) : out'[t] = out[t] /\ link'[t] = link[t] /\ name'[j][t] = name[j][t],
         (todo'[j] = todo[j] /\ deletable'[j] = deletable[j]) \/ phase[j] = "update",
         \A t \in Mine(j) : /\ state'[j][t] = "done" => state[j][t] = "done"
                            /\ state[j][t] \in Linking \cup {"done"} =>
                                 state'[j][t] \in Linking \cup {"done"}
  PROVE  TidyInv(j)'
<1>1. Listed(j)'
  BY DEF TidyInv, Listed
<1>2. Tidy(j)' /\ DoneLinked(j)'
  BY DEF TidyInv, Tidy, DoneLinked
<1> QED BY <1>1, <1>2 DEF TidyInv

LEMMA TidyElsewhere ==
  ASSUME OwnInv, NEW j \in Job, TidyInv(j), NEW t \in Task \ Mine(j),
         \/ CheckComplete(j, t) \/ LookupFails(j, t) \/ BeginTask(j, t) \/ ReadInputs(j, t)
         \/ TaskFails(j, t) \/ MoveOutput(j, t) \/ FindLink(j, t) \/ RemoveLink(j, t)
         \/ MakeLink(j, t) \/ Retry(j, t)
  PROVE  TidyInv(j)'
<1>1. Mine(j) \subseteq Task /\ TypeOK
  BY MineTasks DEF OwnInv, NameInv, JobInv
<1>2. /\ UNCHANGED <<phase, todo, deletable>>
      /\ \A u \in Task : u # t => /\ out'[u] = out[u] /\ link'[u] = link[u]
                                  /\ name'[j][u] = name[j][u] /\ state'[j][u] = state[j][u]
  BY <1>1 DEF CheckComplete, LookupFails, BeginTask, ReadInputs, TaskFails, MoveOutput, FindLink,
     RemoveLink, MakeLink, Retry, Become, TypeOK, files, world
<1>3. \A u \in Mine(j) : u # t
  OBVIOUS
<1> QED BY <1>1, <1>2, <1>3, TidyQuiet

LEMMA TidyWork ==
  ASSUME OwnInv, NEW j \in Job, TidyInv(j), NEW t \in Task,
         \/ Expand(j, t)
         \/ t \in Mine(j) /\
              \/ CheckComplete(j, t) \/ BeginTask(j, t) \/ ReadInputs(j, t)
              \/ MoveOutput(j, t) \/ FindLink(j, t) \/ RemoveLink(j, t) \/ MakeLink(j, t)
              \/ LookupFails(j, t) \/ TaskFails(j, t) \/ Retry(j, t)
  PROVE  TidyInv(j)'
<1> USE DEF OwnInv, NameInv, JobInv
<1>1. Mine(j) \subseteq Task
  BY MineTasks
<1>2. CASE t \in Mine(j) /\ CheckComplete(j, t)
  <2> DEFINE s == IF Exists(t, LookUp(j, t)) THEN "done" ELSE "found"
  <2>1. /\ phase[j] = "update" /\ state[j][t] = "wanted" /\ UNCHANGED <<out, link, phase>>
        /\ Become(j, t, s) /\ name' = [name EXCEPT ![j][t] = LookUp(j, t)]
    BY <1>2 DEF CheckComplete, files
  <2>2. LookUp(j, t) \in Version
    BY OwnTypes, Versions DEF LookUp
  <2>3. s \in {"done", "found"} /\ (s = "done" => out[t][LookUp(j, t)] # {})
    BY <2>2 DEF Exists
  <2> HIDE DEF s
  <2>4. s \in Status
    BY <2>3 DEF Status
  <2>5. /\ state'[j][t] = s /\ name'[j][t] = LookUp(j, t)
        /\ \A u \in Task : u # t => state'[j][u] = state[j][u] /\ name'[j][u] = name[j][u]
    BY <2>1, <2>4, StatusStep DEF TypeOK
  <2>6. t \in Linked => \A n \in Version : out[t][n] # {} => link[t] = n
    BY <1>2, <2>1 DEF TidyInv, Tidy, Linking
  <2>7. DoneLinked(j)'
    BY <1>1, <2>1, <2>2, <2>3, <2>5, <2>6 DEF TidyInv, DoneLinked
  <2>8. Tidy(j)'
    BY <1>1, <2>1, <2>5, <2>6 DEF TidyInv, Tidy
  <2> QED BY <2>1, <2>7, <2>8 DEF TidyInv, Listed
<1>3. CASE Expand(j, t)
  <2>1. /\ UNCHANGED <<out, link, name, phase, todo, deletable>>
        /\ \A u \in Task : \/ state'[j][u] = state[j][u]
                           \/ /\ state[j][u] \notin Linking \cup {"done"}
                              /\ state'[j][u] \notin Linking \cup {"done"}
    BY <1>3 DEF Expand, files, TypeOK, Linking
  <2> QED BY <1>1, <2>1, TidyQuiet
<1>4. CASE t \in Mine(j) /\ \/ BeginTask(j, t) \/ ReadInputs(j, t) \/ LookupFails(j, t)
                            \/ TaskFails(j, t) \/ Retry(j, t)
  <2>1. UNCHANGED <<out, link, name, phase, todo, deletable>>
    BY <1>4 DEF BeginTask, ReadInputs, LookupFails, TaskFails, Retry, files
  <2>2. state[j][t] \notin Linking \cup {"done"}
    BY <1>4 DEF BeginTask, Ready, ReadInputs, LookupFails, TaskFails, Retry, Linking
  <2>3. PICK s \in {"started", "running", "failed", "unknown", "pending"} : Become(j, t, s)
    BY <1>4 DEF BeginTask, ReadInputs, LookupFails, TaskFails, Retry
  <2>4. s \in Status /\ s # "done"
    BY <2>3 DEF Status, Working
  <2>5. \A u \in Task : /\ state'[j][u] = "done" => state[j][u] = "done"
                        /\ state[j][u] \in Linking \cup {"done"} => state'[j][u] = state[j][u]
    BY <2>2, <2>3, <2>4, StatusStep
  <2> QED BY <1>1, <2>1, <2>5, TidyQuiet
<1>5. CASE t \in Mine(j) /\ MoveOutput(j, t)
  <2>1. state[j][t] = "running" /\ state[j][t] \in Working /\ state[j][t] \in Named
    BY <1>5 DEF MoveOutput, Working, Named
  <2>2. /\ phase[j] = "update" /\ UNCHANGED <<link, name, phase>>
        /\ \A u \in Task, n \in Version : u # t => out'[u][n] = out[u][n]
    BY <1>5, <2>1 DEF MoveOutput, Path, WorkInUpdate, TypeOK
  <2>3. /\ t \in Linked => state'[j][t] = "moved"
        /\ \A u \in Task : u # t => state'[j][u] = state[j][u]
    BY <1>5 DEF MoveOutput, Become, TypeOK
  <2>4. Tidy(j)' /\ DoneLinked(j)'
    BY <1>1, <2>2, <2>3 DEF TidyInv, Tidy, DoneLinked, Linking
  <2> QED BY <2>2, <2>4 DEF TidyInv, Listed
<1>6. CASE t \in Mine(j) /\ (FindLink(j, t) \/ RemoveLink(j, t) \/ MakeLink(j, t))
  <2>1. /\ phase[j] = "update" /\ UNCHANGED <<out, name, phase>> /\ state[j][t] \in Linking
        /\ \A u \in Task : u # t => link'[u] = link[u] /\ state'[j][u] = state[j][u]
        /\ \/ state'[j][t] \in {"remove", "symlink"}
           \/ state'[j][t] = "done" /\ link'[t] = name[j][t]
    BY <1>6, LinkSteps
  <2>2. Tidy(j)' /\ DoneLinked(j)'
    BY <1>1, <2>1 DEF TidyInv, Tidy, DoneLinked, Linking
  <2> QED BY <2>1, <2>2 DEF TidyInv, Listed
<1> QED BY <1>2, <1>3, <1>4, <1>5, <1>6

(* What a job counts as done is current, and stays so until it ends, if    *)
(* only that job touches it and cleans up first, and no linked task has a  *)
(* .labekeep in its directory (OnlyReportsKept): the cleanup has left only *)
(* linked outputs, so what is found complete is linked (cli.py:25-26).     *)
THEOREM OwnedDoneIsCurrent ==
  ASSUME Keep \cap Linked = {}
  PROVE  Spec => []DoneIsCurrent
<1> DEFINE Inv == OwnInv /\ \A j \in Cleaner : TidyInv(j)
<1>0. Cleaner \subseteq Job
  BY StoreAssumption
<1>1. Init => Inv
  <2> SUFFICES ASSUME Init, NEW j \in Cleaner PROVE TidyInv(j)
    BY OwnInvInit
  <2>1. /\ phase[j] = "idle" /\ \A t \in Mine(j) : state[j][t] = "none"
    BY <1>0, MineTasks DEF Init
  <2> QED BY <2>1 DEF TidyInv, Listed, Tidy, DoneLinked
<1>2. ASSUME Inv, [Next]_vars PROVE Inv'
  <2>1. OwnInv'
    BY <1>2, OwnInvNext
  <2>2. CASE UNCHANGED vars \/ NewDay \/ NewDump
    <3>1. UNCHANGED <<out, link, name, phase, todo, deletable, state>>
      BY <2>2 DEF vars, files, local, NewDay, NewDump
    <3>2. ASSUME NEW j \in Cleaner PROVE TidyInv(j)'
      BY <1>0, <1>2, <3>1, TidyQuiet
    <3> QED BY <2>1, <3>2
  <2>3. ASSUME NEW k \in Job, Proceed(k) \/ GoWrong(k), NEW j \in Cleaner PROVE TidyInv(j)'
    <3>1. CASE j = k
      BY <1>2, <2>3, <3>1, TidyPhases, TidyElsewhere, TidyWork
         DEF Proceed, GoWrong, Schedule, Work
    <3>2. CASE j # k
      <4>1. /\ \A t \in Task \ Touches(k) : out'[t] = out[t] /\ link'[t] = link[t]
            /\ phase'[j] = phase[j] /\ todo'[j] = todo[j] /\ deletable'[j] = deletable[j]
            /\ name'[j] = name[j] /\ state'[j] = state[j]
        BY <1>0, <1>2, <2>3, <3>2, Frame DEF OwnInv, NameInv
      <4>2. Mine(j) \subseteq Task \ Touches(k)
        BY <1>0, <3>2, MineTasks
      <4> QED BY <1>0, <1>2, <4>1, <4>2, TidyQuiet
    <3> QED BY <3>1, <3>2
  <2> QED BY <1>2, <2>1, <2>2, <2>3 DEF Next
<1>3. Inv => DoneIsCurrent
  BY DEF TidyInv, DoneLinked, DoneIsCurrent, Done
<1> HIDE DEF Inv
<1> QED BY <1>1, <1>2, <1>3, PTL DEF Spec
=============================================================================
