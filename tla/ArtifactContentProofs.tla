------------------------- MODULE ArtifactContentProofs -------------------------
(***************************************************************************)
(* Proofs about what the outputs in ArtifactStore are made of, for any     *)
(* number of jobs: that an output is not older than its name says, and     *)
(* that it is built from all of its inputs.                                *)
(***************************************************************************)
EXTENDS ArtifactStoreProofs

(* A task that is named by the dump needs only such tasks: citation data   *)
(* and the statistics about it (DumpTasksApart in LabeTasks).              *)
DumpsApart == \A t \in Task \ Daily : Requires[t] \cap Daily = {}

LEMMA ReachClosed ==
  ASSUME NEW t \in Task
  PROVE  t \in Reach(t) /\ Reach(t) \subseteq Task /\ Closed(Reach(t))
<1>1. ASSUME NEW u \in Reach(t), NEW d \in Requires[u] PROVE d \in Reach(t)
  BY <1>1, StoreAssumption DEF Reach, Closed
<1> QED BY <1>1 DEF Reach, Closed

(* Tasks named by the dump of which each, and each task below it, is the   *)
(* only one to want its inputs, so that no input is looked up before it.   *)
OnlyUser(t) == \A d \in Requires[t] \ Daily :
  /\ \A u \in Task : d \in Requires[u] => u = t
  /\ \A j \in Job : d \notin Roots[j]
Chained == {t \in Task \ Daily : \A u \in Reach(t) : OnlyUser(u)}

LEMMA ChainedClosed ==
  ASSUME NEW t \in Chained
  PROVE  OnlyUser(t) /\ Requires[t] \ Daily \subseteq Chained
<1>1. t \in Task /\ t \in Reach(t) /\ Closed(Reach(t)) /\ Reach(t) \in SUBSET Task
  BY ReachClosed DEF Chained
<1>2. ASSUME NEW d \in Requires[t] PROVE d \in Task /\ Reach(d) \subseteq Reach(t)
  BY <1>1, <1>2 DEF Reach, Closed
<1> QED BY <1>1, <1>2 DEF Chained

-----------------------------------------------------------------------------
(* Names.  Dates are the same for all of a job, dumps are not.             *)
Unnamed == \A j \in Job, t \in Task : state[j][t] \notin Named => name[j][t] = None
NoneBefore ==
  \A j \in Job : phase[j] \notin {"update", "restart"} => \A t \in Task : state[j][t] = "none"
DatesKnown == \A j \in Job, t \in Daily : name[j][t] \in {None, today[j]}
DumpsKnown == \A j \in Job, t \in Task \ Daily : name[j][t] # None => name[j][t] <= dump
DumpsInOrder ==
  \A j \in Job, t \in Chained : \A d \in Requires[t] \ Daily :
    state[j][d] # "none" => /\ name[j][t] # None
                            /\ name[j][d] # None => name[j][t] <= name[j][d]

NameInv == JobInv /\ Unnamed /\ NoneBefore /\ DatesKnown /\ DumpsKnown /\ DumpsInOrder

LEMMA NameInvInit == Init => NameInv
<1> SUFFICES ASSUME Init PROVE NameInv
  OBVIOUS
<1>1. /\ \A j \in Job, t \in Task : state[j][t] = "none" /\ name[j][t] = None
      /\ Daily \subseteq Task
  BY StoreAssumption DEF Init
<1>2. Unnamed /\ NoneBefore /\ DatesKnown /\ DumpsKnown
  BY <1>1 DEF Unnamed, NoneBefore, DatesKnown, DumpsKnown
<1>3. DumpsInOrder
  BY <1>1, StoreAssumption DEF DumpsInOrder, Chained
<1> QED
  BY <1>2, <1>3, JobInvInit DEF NameInv

(* A process that ends has no names.                                       *)
LEMMA NameExit ==
  ASSUME NameInv, JobInv', NEW j \in Job, Exit(j), dump' = dump
  PROVE  NameInv'
<1>1. /\ phase'[j] = "idle"
      /\ \A t \in Task : state'[j][t] = "none" /\ name'[j][t] = None
  BY DEF Exit, NameInv, JobInv, TypeOK
<1>2. \A k \in Job \ {j} : /\ phase'[k] = phase[k] /\ today'[k] = today[k]
                          /\ name'[k] = name[k] /\ state'[k] = state[k]
  BY DEF Exit, NameInv, JobInv, TypeOK
<1>3. Daily \subseteq Task /\ \A t \in Task : Requires[t] \subseteq Task
  BY StoreAssumption
<1>4. Unnamed' /\ NoneBefore'
  BY <1>1, <1>2 DEF NameInv, Unnamed, NoneBefore
<1>5. DatesKnown' /\ DumpsKnown'
  BY <1>1, <1>2, <1>3 DEF NameInv, DatesKnown, DumpsKnown
<1>6. DumpsInOrder'
  BY <1>1, <1>2, <1>3 DEF NameInv, DumpsInOrder, Chained
<1> QED BY <1>4, <1>5, <1>6 DEF NameInv

(* Steps that look up nothing and want nothing.                            *)
LEMMA NameQuiet ==
  ASSUME NameInv, JobInv', UNCHANGED <<name, today>>, dump' \in Int, dump <= dump',
         \A j \in Job : phase'[j] \notin {"update", "restart"} =>
                          phase[j] \notin {"update", "restart"},
         \A j \in Job, t \in Task : /\ state'[j][t] \in Named <=> state[j][t] \in Named
                                    /\ state'[j][t] = "none" <=> state[j][t] = "none"
  PROVE  NameInv'
<1>1. Unnamed' /\ NoneBefore' /\ DatesKnown'
  BY DEF NameInv, Unnamed, NoneBefore, DatesKnown
<1>2. DumpsKnown'
  <2> SUFFICES ASSUME NEW j \in Job, NEW t \in Task \ Daily, name[j][t] # None
               PROVE  name[j][t] <= dump'
    BY DEF DumpsKnown
  <2>1. name[j][t] <= dump /\ name[j][t] \in Int /\ dump \in Int
    BY DEF NameInv, DumpsKnown, JobInv, TypeOK, Version
  <2> QED BY <2>1
<1>3. DumpsInOrder'
  <2>1. \A t \in Task : Requires[t] \subseteq Task
    BY StoreAssumption
  <2> QED BY <2>1 DEF NameInv, DumpsInOrder, Chained
<1> QED BY <1>1, <1>2, <1>3 DEF NameInv

(* The update begins: no task has a name, and no input is wanted yet.      *)
LEMMA NameStart ==
  ASSUME NameInv, JobInv', NEW j \in Job, StartUpdate(j)
  PROVE  NameInv'
<1>1. /\ phase[j] \notin {"update", "restart"} /\ phase'[j] = "update"
      /\ \A t \in Task : state'[j][t] = IF t \in Roots[j] THEN "wanted" ELSE "none"
      /\ \A k \in Job \ {j} : /\ phase'[k] = phase[k] /\ today'[k] = today[k]
                              /\ state'[k] = state[k]
      /\ UNCHANGED <<name, dump>>
  BY DEF StartUpdate, PreviousEnded, NameInv, JobInv, TypeOK, world
<1>2. \A t \in Task : name[j][t] = None
  BY <1>1 DEF NameInv, Unnamed, NoneBefore, Named, Working, Linking
<1>3. Daily \subseteq Task /\ \A t \in Task : Requires[t] \subseteq Task
  BY StoreAssumption
<1>4. Unnamed' /\ NoneBefore'
  BY <1>1, <1>2 DEF NameInv, Unnamed, NoneBefore
<1>5. DatesKnown' /\ DumpsKnown'
  BY <1>1, <1>2, <1>3 DEF NameInv, DatesKnown, DumpsKnown
<1>6. DumpsInOrder'
  <2> SUFFICES ASSUME NEW k \in Job, NEW t \in Chained,
                      NEW d \in Requires[t] \ Daily, state'[k][d] # "none"
               PROVE  /\ name[k][t] # None
                      /\ name[k][d] # None => name[k][t] <= name[k][d]
    BY <1>1 DEF DumpsInOrder
  <2>1. CASE k # j
    BY <1>1, <2>1 DEF NameInv, DumpsInOrder
  <2>2. CASE k = j
    BY <1>1, <1>3, <2>2, ChainedClosed DEF OnlyUser, Chained
  <2> QED BY <2>1, <2>2
<1> QED BY <1>4, <1>5, <1>6 DEF NameInv

(* A version is looked up: it is the newest so far, so it is not older     *)
(* than that of the task which asked for it.                               *)
LEMMA NameLookUp ==
  ASSUME NameInv, JobInv', NEW j \in Job, NEW t \in Task, CheckComplete(j, t)
  PROVE  NameInv'
<1> DEFINE s == IF Exists(t, LookUp(j, t)) THEN "done" ELSE "found"
<1>a. state[j][t] = "wanted" /\ name' = [name EXCEPT ![j][t] = LookUp(j, t)]
  BY DEF CheckComplete
<1>b. state' = [state EXCEPT ![j][t] = s]
  BY DEF CheckComplete, Become
<1>c. s \in {"done", "found"} /\ UNCHANGED <<dump, phase, today>>
  BY DEF CheckComplete, world
<1> HIDE DEF s
<1>d. /\ name'[j][t] = LookUp(j, t)
      /\ \A k \in Job, u \in Task : (k # j \/ u # t) => name'[k][u] = name[k][u]
  BY <1>a DEF NameInv, JobInv, TypeOK
<1>e. /\ state'[j][t] = s
      /\ \A k \in Job, u \in Task : (k # j \/ u # t) => state'[k][u] = state[k][u]
  BY <1>b DEF NameInv, JobInv, TypeOK
<1>1. /\ state[j][t] = "wanted" /\ state'[j][t] \in {"done", "found"}
      /\ name'[j][t] = LookUp(j, t)
      /\ \A k \in Job, u \in Task : (k # j \/ u # t) =>
            name'[k][u] = name[k][u] /\ state'[k][u] = state[k][u]
      /\ UNCHANGED <<dump, phase, today>>
  BY <1>a, <1>c, <1>d, <1>e
<1>2. phase[j] = "update"
  BY DEF CheckComplete
<1>3. /\ Daily \subseteq Task /\ \A u \in Task : Requires[u] \subseteq Task
      /\ name'[j][t] # None
  BY <1>d, StoreAssumption, Versions DEF LookUp, NameInv, JobInv, TypeOK
<1>4. Unnamed' /\ NoneBefore'
  <2>1. {"done", "found"} \subseteq Named
    BY DEF Named
  <2>2. Unnamed'
    BY <1>1, <2>1 DEF NameInv, Unnamed
  <2> QED BY <1>1, <1>2, <2>2 DEF NameInv, NoneBefore
<1>5. DatesKnown'
  <2> SUFFICES ASSUME NEW k \in Job, NEW u \in Daily
               PROVE  name'[k][u] \in {None, today[k]}
    BY <1>c DEF DatesKnown
  <2>1. CASE k = j /\ u = t
    BY <1>d, <2>1 DEF LookUp
  <2> QED BY <1>3, <1>d, <2>1 DEF NameInv, DatesKnown
<1>6. DumpsKnown'
  <2> SUFFICES ASSUME NEW k \in Job, NEW u \in Task \ Daily, name'[k][u] # None
               PROVE  name'[k][u] <= dump
    BY <1>c DEF DumpsKnown
  <2>1. CASE k = j /\ u = t
    BY <1>d, <2>1 DEF LookUp, NameInv, JobInv, TypeOK
  <2> QED BY <1>d, <2>1 DEF NameInv, DumpsKnown
<1>7. DumpsInOrder'
  <2> SUFFICES ASSUME NEW k \in Job, NEW u \in Chained,
                      NEW d \in Requires[u] \ Daily, state'[k][d] # "none"
               PROVE  /\ name'[k][u] # None
                      /\ name'[k][d] # None => name'[k][u] <= name'[k][d]
    BY DEF DumpsInOrder
  <2>1. /\ u \in Task /\ d \in Task /\ state[k][d] # "none"
    BY <1>1, <1>3 DEF Chained
  <2>2. /\ name[k][u] # None
        /\ name[k][d] # None => name[k][u] <= name[k][d]
    BY <2>1 DEF NameInv, DumpsInOrder
  <2>3. k # j \/ u # t
    BY <1>1, <2>2 DEF NameInv, Unnamed, Named, Working, Linking
  <2>4. name'[k][u] = name[k][u]
    BY <1>1, <2>1, <2>3
  <2>5. CASE k = j /\ d = t
    <3>1. name'[k][d] = dump
      BY <1>1, <2>5 DEF LookUp
    <3> QED BY <2>1, <2>2, <2>4, <3>1 DEF NameInv, DumpsKnown, Chained
  <2>6. CASE k # j \/ d # t
    BY <1>1, <2>1, <2>2, <2>4, <2>6
  <2> QED BY <2>5, <2>6
<1> QED BY <1>4, <1>5, <1>6, <1>7 DEF NameInv

(* Inputs are wanted once the task that requires them has its name.        *)
LEMMA NameExpand ==
  ASSUME NameInv, JobInv', NEW j \in Job, NEW t \in Task, Expand(j, t)
  PROVE  NameInv'
<1>1. /\ state[j][t] = "found" /\ state'[j][t] = "pending" /\ phase[j] = "update"
      /\ \A u \in Task : u # t =>
            \/ state'[j][u] = state[j][u]
            \/ u \in Requires[t] /\ state[j][u] = "none" /\ state'[j][u] = "wanted"
      /\ \A k \in Job \ {j} : state'[k] = state[k]
      /\ UNCHANGED <<dump, phase, today, name>>
  BY DEF Expand, NameInv, JobInv, TypeOK, world
<1>2. Unnamed'
  BY <1>1 DEF NameInv, Unnamed, Named, Working, Linking
<1>3. NoneBefore' /\ DatesKnown' /\ DumpsKnown'
  BY <1>1 DEF NameInv, NoneBefore, DatesKnown, DumpsKnown
<1>4. DumpsInOrder'
  <2> SUFFICES ASSUME NEW k \in Job, NEW u \in Chained,
                      NEW d \in Requires[u] \ Daily, state'[k][d] # "none"
               PROVE  /\ name[k][u] # None
                      /\ name[k][d] # None => name[k][u] <= name[k][d]
    BY <1>1 DEF DumpsInOrder
  <2>1. d \in Task
    BY StoreAssumption DEF Chained
  <2>2. CASE state[k][d] # "none"
    BY <2>2 DEF NameInv, DumpsInOrder
  <2>3. CASE state[k][d] = "none"
    <3>1. k = j /\ d \in Requires[t]
      BY <1>1, <2>1, <2>3
    <3>2. u = t
      BY <2>1, <3>1, ChainedClosed DEF OnlyUser
    <3>3. name[k][u] \in Version /\ name[k][d] = None
      BY <1>1, <2>1, <2>3, <3>1, <3>2 DEF NameInv, JobInv, NamesKnown, Unnamed, Named,
         Working, Linking
    <3> QED BY <3>3, Versions
  <2> QED BY <2>2, <2>3
<1> QED BY <1>2, <1>3, <1>4 DEF NameInv

(* Work on a task changes its status among those that have a name.         *)
LEMMA WorkStatus ==
  ASSUME JobInv, NEW j \in Job, NEW t \in Task,
         \/ BeginTask(j, t) \/ ReadInputs(j, t) \/ TaskFails(j, t) \/ MoveOutput(j, t)
         \/ FindLink(j, t) \/ RemoveLink(j, t) \/ MakeLink(j, t) \/ Retry(j, t)
  PROVE  /\ state[j][t] \in Named \ {"done"}
         /\ state'[j][t] \in Named
         /\ \A k \in Job, u \in Task : (k # j \/ u # t) => state'[k][u] = state[k][u]
<1>1. /\ Named = {"found", "pending", "done", "failed", "refused", "started", "running",
                  "moved", "remove", "symlink"}
      /\ Named \subseteq Status
  BY DEF Named, Status, Working, Linking
<1>2. state[j][t] \in Named \ {"done"}
  BY <1>1 DEF BeginTask, Ready, ReadInputs, TaskFails, MoveOutput, FindLink, RemoveLink,
     MakeLink, Retry
<1>3. PICK s \in Named : Become(j, t, s)
  BY <1>1 DEF BeginTask, ReadInputs, TaskFails, MoveOutput, FindLink, RemoveLink, MakeLink, Retry
<1> QED BY <1>1, <1>2, <1>3, StatusStep DEF JobInv

LEMMA NameWork ==
  ASSUME NameInv, JobInv', NEW j \in Job, NEW t \in Task,
         \/ BeginTask(j, t) \/ ReadInputs(j, t) \/ TaskFails(j, t) \/ MoveOutput(j, t)
         \/ FindLink(j, t) \/ RemoveLink(j, t) \/ MakeLink(j, t) \/ Retry(j, t)
  PROVE  NameInv'
<1>1. UNCHANGED <<name, today, dump, phase>> /\ dump \in Int
  BY DEF BeginTask, ReadInputs, TaskFails, MoveOutput, FindLink, RemoveLink, MakeLink, Retry,
     world, NameInv, JobInv, TypeOK
<1>2. /\ state[j][t] \in Named /\ state'[j][t] \in Named
      /\ \A k \in Job, u \in Task : (k # j \/ u # t) => state'[k][u] = state[k][u]
  BY WorkStatus DEF NameInv
<1>3. "none" \notin Named
  BY DEF Named, Working, Linking
<1>4. \A k \in Job, u \in Task : /\ state'[k][u] \in Named <=> state[k][u] \in Named
                                 /\ state'[k][u] = "none" <=> state[k][u] = "none"
  BY <1>2, <1>3
<1> QED BY <1>1, <1>4, NameQuiet

LEMMA NameInvNext == NameInv /\ [Next]_vars => NameInv'
<1> SUFFICES ASSUME NameInv, [Next]_vars PROVE NameInv'
  OBVIOUS
<1>1. JobInv'
  BY JobInvNext DEF NameInv
<1>2. dump \in Int
  BY DEF NameInv, JobInv, TypeOK
<1>3. CASE UNCHANGED <<name, state, phase, today>> /\ dump' \in Int /\ dump <= dump'
  BY <1>1, <1>3, NameQuiet
<1>4. CASE UNCHANGED vars \/ NewDay \/ NewDump
  BY <1>2, <1>3, <1>4 DEF vars, world, local, NewDay, NewDump
<1>5. ASSUME NEW j \in Job, Clean(j) PROVE NameInv'
  <2>1. UNCHANGED <<name, state, dump, today>>
    BY <1>5 DEF Clean, StartCleanup, ListDirectory, Remove, world
  <2>2. \A k \in Job : phase'[k] \notin {"update", "restart"} =>
                         phase[k] \notin {"update", "restart"}
    BY <1>5 DEF Clean, StartCleanup, PreviousEnded, ListDirectory, Remove, NameInv, JobInv,
       TypeOK
  <2> QED BY <1>1, <1>2, <2>1, <2>2, NameQuiet
<1>6. ASSUME NEW j \in Job, NEW t \in Task, LookupFails(j, t) PROVE NameInv'
  <2>1. state[j][t] = "wanted" /\ Become(j, t, "unknown") /\ UNCHANGED <<name, today, dump, phase>>
    BY <1>6 DEF LookupFails, world
  <2>2. {"wanted", "unknown"} \subseteq Status \ Named /\ "none" \notin {"wanted", "unknown"}
    BY DEF Status, Named, Working, Linking
  <2>3. \A k \in Job, u \in Task : \/ state'[k][u] = state[k][u]
                                   \/ state[k][u] = "wanted" /\ state'[k][u] = "unknown"
    BY <2>1, <2>2, StatusStep DEF NameInv, JobInv
  <2> QED BY <1>1, <1>2, <2>1, <2>2, <2>3, NameQuiet
<1>7. ASSUME NEW j \in Job, FinishUpdate(j) PROVE NameInv'
  <2>1. CASE j \in Cleaner
    <3>1. phase' = [phase EXCEPT ![j] = "restart"] /\ UNCHANGED <<name, state, dump, today>>
      BY <1>7, <2>1 DEF FinishUpdate, world
    <3>2. \A k \in Job : phase'[k] \notin {"update", "restart"} =>
                           phase[k] \notin {"update", "restart"}
      BY <3>1 DEF NameInv, JobInv, TypeOK
    <3> QED BY <1>1, <1>2, <3>1, <3>2, NameQuiet
  <2>2. CASE j \notin Cleaner
    BY <1>1, <1>7, <2>2, NameExit DEF FinishUpdate, world
  <2> QED BY <2>1, <2>2
<1>8. ASSUME NEW j \in Job, Crash(j) \/ Restart(j) PROVE NameInv'
  BY <1>1, <1>8, NameExit DEF Crash, Restart, world
<1>9. ASSUME NEW j \in Job, Proceed(j) \/ GoWrong(j) PROVE NameInv'
  BY <1>1, <1>5, <1>6, <1>7, <1>8, <1>9, NameStart, NameLookUp, NameExpand, NameWork
     DEF Proceed, GoWrong, Schedule, Work
<1> QED BY <1>3, <1>4, <1>9 DEF Next

-----------------------------------------------------------------------------
(* NotOlder(c, t, n): content c may have the name n, for task t.  S are    *)
(* the tasks whose names tell what they are made of: those named by date,  *)
(* and others that never start before an input has a name as new as theirs.*)
NotOlder(c, t, n) == \A s \in c : (s[1] \in Daily <=> t \in Daily) => s[2] >= n
OfKind(c, t) == t \notin Daily => \A s \in c : s[1] \notin Daily
InOrder(S) ==
  \A j \in Job, t \in S \ Daily : state[j][t] = "started" =>
    \A d \in Requires[t] \ Daily : d \in S /\ name[j][t] <= name[j][d]

InputsDone ==
  \A j \in Job, t \in Task :
    state[j][t] = "started" => \A d \in Requires[t] : state[j][d] = "done"
StoredInOrder(S) ==
  \A t \in Task, n \in Version :
    OfKind(out[t][n], t) /\ (t \in S => NotOlder(out[t][n], t, n))
MadeInOrder(S) ==
  \A j \in Job, t \in Task : state[j][t] = "running" =>
    OfKind(made[j][t], t) /\ (t \in S => NotOlder(made[j][t], t, name[j][t]))

ContentInv(S) == NameInv /\ InputsDone /\ StoredInOrder(S) /\ MadeInOrder(S)

(* What a task reads is as new as its name says.                           *)
LEMMA SourceInOrder ==
  ASSUME DumpsApart, NEW S, Daily \subseteq S, ContentInv(S), InOrder(S),
         NEW j \in Job, NEW t \in Task, state[j][t] = "started"
  PROVE  /\ OfKind(Source(j, t), t)
         /\ t \in S => NotOlder(Source(j, t), t, name[j][t])
<1>1. name[j][t] \in Version
  BY DEF ContentInv, NameInv, JobInv, NamesKnown, Named, Working
<1>2. Requires[t] \subseteq Task
  BY StoreAssumption
<1>3. \A d \in Requires[t] : state[j][d] = "done"
  BY DEF ContentInv, InputsDone
<1>4. \A d \in Requires[t] : name[j][d] \in Version
  BY <1>2, <1>3 DEF ContentInv, NameInv, JobInv, NamesKnown, Named
<1>5. ASSUME NEW s \in Source(j, t)
      PROVE  \/ s = <<t, name[j][t]>>
             \/ \E d \in Requires[t] : s \in out[d][name[j][d]]
  BY <1>5 DEF Source
<1>6. ASSUME NEW s \in Source(j, t), t \notin Daily
      PROVE  s[1] \notin Daily
  <2>1. CASE s = <<t, name[j][t]>>
    BY <1>6, <2>1
  <2>2. ASSUME NEW d \in Requires[t], s \in out[d][name[j][d]]
        PROVE  s[1] \notin Daily
    <3>1. d \notin Daily
      BY <1>6, <2>2 DEF DumpsApart
    <3> QED BY <1>2, <1>4, <2>2, <3>1 DEF ContentInv, StoredInOrder, OfKind
  <2> QED BY <1>5, <2>1, <2>2
<1>7. ASSUME t \in S, NEW s \in Source(j, t), s[1] \in Daily <=> t \in Daily
      PROVE  s[2] >= name[j][t]
  <2>1. CASE s = <<t, name[j][t]>>
    BY <1>1, <2>1 DEF Version
  <2>2. ASSUME NEW d \in Requires[t], s \in out[d][name[j][d]]
        PROVE  s[2] >= name[j][t]
    <3>1. /\ d \in Task /\ name[j][d] \in Version /\ s[2] \in Version
          /\ OfKind(out[d][name[j][d]], d)
          /\ d \in S => NotOlder(out[d][name[j][d]], d, name[j][d])
      <4>1. d \in Task /\ name[j][d] \in Version
        BY <1>2, <1>4
      <4>2. out[d][name[j][d]] \in Content
        BY <4>1 DEF ContentInv, NameInv, JobInv, TypeOK
      <4> QED BY <2>2, <4>1, <4>2 DEF ContentInv, StoredInOrder, Content
    <3>2. CASE t \in Daily
      <4>1. d \in Daily
        BY <1>7, <2>2, <3>1, <3>2 DEF OfKind
      <4>2. name[j][d] = today[j] /\ name[j][t] = today[j]
        BY <1>1, <3>1, <3>2, <4>1, Versions DEF ContentInv, NameInv, DatesKnown
      <4> QED BY <1>7, <2>2, <3>1, <3>2, <4>1, <4>2 DEF NotOlder
    <3>3. CASE t \notin Daily
      <4>1. d \notin Daily /\ s[1] \notin Daily
        BY <1>6, <1>7, <2>2, <3>3 DEF DumpsApart
      <4>2. d \in S /\ name[j][t] <= name[j][d]
        BY <1>7, <3>3, <4>1 DEF InOrder
      <4>3. s[2] >= name[j][d]
        BY <2>2, <3>1, <4>1, <4>2 DEF NotOlder
      <4> QED BY <1>1, <3>1, <4>2, <4>3 DEF Version
    <3> QED BY <3>2, <3>3
  <2> QED BY <1>5, <2>1, <2>2
<1> QED BY <1>6, <1>7 DEF OfKind, NotOlder

-----------------------------------------------------------------------------
(* Where content comes from in any step: what a running task has made is   *)
(* what it read, and an output is what a running task moved to its name.   *)
OnlyRead ==
  \A j \in Job, t \in Task : state'[j][t] = "running" =>
    /\ name'[j][t] = name[j][t]
    /\ \/ state[j][t] = "running" /\ made'[j][t] = made[j][t]
       \/ /\ state[j][t] = "started" /\ made'[j][t] = Source(j, t)
          /\ Missing(j, t) = {} \/ t \in Lenient
OnlyMoved ==
  \A t \in Task, n \in Version :
    \/ out'[t][n] \in {out[t][n], {}}
    \/ \E j \in Job : state[j][t] = "running" /\ n = name[j][t] /\ out'[t][n] = made[j][t]
OnlyStarted ==
  \A j \in Job, t \in Task : state'[j][t] = "started" =>
    \A d \in Requires[t] : state'[j][d] = "done"

(* Steps that leave contents, and tasks at work, alone.                    *)
LEMMA ContentQuiet ==
  ASSUME JobInv, InputsDone, UNCHANGED <<out, made>>,
         \A j \in Job, t \in Task :
           /\ state'[j][t] \in {"started", "running"} =>
                state'[j][t] = state[j][t] /\ name'[j][t] = name[j][t]
           /\ state[j][t] = "done" => \/ state'[j][t] = "done"
                                      \/ \A u \in Task : state'[j][u] # "started"
  PROVE  OnlyRead /\ OnlyMoved /\ OnlyStarted
<1>1. \A t \in Task : Requires[t] \subseteq Task
  BY StoreAssumption
<1>2. OnlyRead /\ OnlyMoved
  BY DEF OnlyRead, OnlyMoved
<1>3. OnlyStarted
  BY <1>1 DEF OnlyStarted, InputsDone
<1> QED BY <1>2, <1>3

LEMMA ContentExit ==
  ASSUME JobInv, InputsDone, NEW j \in Job, Exit(j), UNCHANGED out
  PROVE  OnlyRead /\ OnlyMoved /\ OnlyStarted
<1>1. /\ \A t \in Task : state'[j][t] = "none"
      /\ \A k \in Job \ {j} : /\ name'[k] = name[k] /\ state'[k] = state[k]
                              /\ made'[k] = made[k]
  BY ExitStep DEF JobInv
<1>2. \A t \in Task : Requires[t] \subseteq Task
  BY StoreAssumption
<1>3. \A k \in Job, t \in Task : state'[k][t] \in {"started", "running"} => k # j
  BY <1>1
<1>4. OnlyRead
  BY <1>1, <1>3 DEF OnlyRead
<1>5. OnlyMoved
  BY DEF OnlyMoved
<1>6. OnlyStarted
  BY <1>1, <1>2, <1>3 DEF OnlyStarted, InputsDone
<1> QED BY <1>4, <1>5, <1>6

(* One task gets another status, and what it read is kept or forgotten.    *)
LEMMA ContentStatus ==
  ASSUME JobInv, InputsDone, NEW j \in Job, NEW t \in Task, NEW s \in Status,
         Become(j, t, s), s \notin {"started", "running"}, state[j][t] # "done",
         UNCHANGED name,
         \A k \in Job, u \in Task : (k # j \/ u # t) => made'[k][u] = made[k][u]
  PROVE  OnlyRead /\ OnlyStarted
<1>1. /\ state'[j][t] = s
      /\ \A k \in Job, u \in Task : (k # j \/ u # t) => state'[k][u] = state[k][u]
  BY StatusStep DEF JobInv
<1>2. \A u \in Task : Requires[u] \subseteq Task
  BY StoreAssumption
<1>3. OnlyRead
  BY <1>1 DEF OnlyRead
<1>4. OnlyStarted
  BY <1>1, <1>2 DEF OnlyStarted, InputsDone
<1> QED BY <1>3, <1>4

LEMMA ContentWork ==
  ASSUME JobInv, InputsDone, NEW j \in Job, NEW t \in Task,
         \/ BeginTask(j, t) \/ ReadInputs(j, t) \/ TaskFails(j, t) \/ MoveOutput(j, t)
         \/ FindLink(j, t) \/ RemoveLink(j, t) \/ MakeLink(j, t) \/ Retry(j, t)
  PROVE  OnlyRead /\ OnlyMoved /\ OnlyStarted
<1>1. /\ {"failed", "moved", "done", "remove", "symlink", "refused", "pending",
          "started", "running"} \subseteq Status
      /\ \A u \in Task : Requires[u] \subseteq Task
  BY StoreAssumption DEF Status, Working, Linking
<1>2. CASE BeginTask(j, t)
  <2>1. CASE Missing(j, t) = {}
    <3>1. /\ state'[j][t] = "started" /\ \A d \in Requires[t] : state[j][d] = "done"
          /\ \A k \in Job, u \in Task : (k # j \/ u # t) => state'[k][u] = state[k][u]
          /\ state[j][t] = "pending" /\ UNCHANGED <<made, name, out>>
      BY <1>1, <1>2, <2>1, StatusStep DEF BeginTask, Ready, JobInv, files
    <3>2. OnlyRead /\ OnlyMoved
      BY <3>1 DEF OnlyRead, OnlyMoved
    <3>3. OnlyStarted
      BY <1>1, <3>1 DEF OnlyStarted, InputsDone
    <3> QED BY <3>2, <3>3
  <2>2. CASE Missing(j, t) # {}
    BY <1>1, <1>2, <2>2, ContentStatus DEF BeginTask, Ready, files, OnlyMoved
  <2> QED BY <2>1, <2>2
<1>3. CASE ReadInputs(j, t)
  <2>1. CASE Missing(j, t) = {} \/ t \in Lenient
    <3>1. /\ state'[j][t] = "running" /\ state[j][t] = "started"
          /\ \A k \in Job, u \in Task : (k # j \/ u # t) => state'[k][u] = state[k][u]
          /\ UNCHANGED <<name, out>>
      BY <1>1, <1>3, <2>1, StatusStep DEF ReadInputs, JobInv, files
    <3>2. /\ made'[j][t] = Source(j, t)
          /\ \A k \in Job, u \in Task : (k # j \/ u # t) => made'[k][u] = made[k][u]
      BY <1>3, <2>1 DEF ReadInputs, JobInv, TypeOK
    <3>3. OnlyRead
      BY <2>1, <3>1, <3>2 DEF OnlyRead
    <3>4. OnlyStarted /\ OnlyMoved
      BY <1>1, <3>1 DEF OnlyStarted, InputsDone, OnlyMoved
    <3> QED BY <3>3, <3>4
  <2>2. CASE ~(Missing(j, t) = {} \/ t \in Lenient)
    BY <1>1, <1>3, <2>2, ContentStatus DEF ReadInputs, files, OnlyMoved
  <2> QED BY <2>1, <2>2
<1>4. CASE TaskFails(j, t)
  <2>1. \A k \in Job, u \in Task : (k # j \/ u # t) => made'[k][u] = made[k][u]
    BY <1>4 DEF TaskFails, JobInv, TypeOK
  <2> QED BY <1>1, <1>4, <2>1, ContentStatus DEF TaskFails, files, OnlyMoved
<1>5. CASE MoveOutput(j, t)
  <2>1. \A k \in Job, u \in Task : (k # j \/ u # t) => made'[k][u] = made[k][u]
    BY <1>5 DEF MoveOutput, JobInv, TypeOK
  <2>2. state[j][t] = "running" /\ name[j][t] \in Version
    BY <1>5 DEF MoveOutput, JobInv, NamesKnown, Named, Working
  <2>3. \A u \in Task, n \in Version :
          out'[u][n] = IF u = t /\ n = name[j][t] THEN made[j][t] ELSE out[u][n]
    BY <1>5, <2>2 DEF MoveOutput, Path, JobInv, TypeOK
  <2>4. OnlyMoved
    BY <2>2, <2>3 DEF OnlyMoved
  <2>5. OnlyRead /\ OnlyStarted
    <3>1. PICK s \in {"moved", "done"} : Become(j, t, s) /\ UNCHANGED name
      BY <1>5 DEF MoveOutput
    <3> QED BY <1>1, <2>1, <2>2, <3>1, ContentStatus
  <2> QED BY <2>4, <2>5
<1>6. CASE FindLink(j, t) \/ RemoveLink(j, t) \/ MakeLink(j, t) \/ Retry(j, t)
  <2>1. state[j][t] # "done" /\ UNCHANGED <<name, made, out>>
    BY <1>6 DEF FindLink, RemoveLink, MakeLink, Retry, files
  <2>2. PICK s \in {"remove", "symlink", "refused", "done", "pending"} : Become(j, t, s)
    BY <1>6 DEF FindLink, RemoveLink, MakeLink, Retry
  <2> QED BY <1>1, <2>1, <2>2, ContentStatus DEF OnlyMoved
<1> QED BY <1>2, <1>3, <1>4, <1>5, <1>6

LEMMA ContentSchedule ==
  ASSUME JobInv, NoneBefore, InputsDone, NEW j \in Job, NEW t \in Task,
         StartUpdate(j) \/ CheckComplete(j, t) \/ LookupFails(j, t) \/ Expand(j, t)
  PROVE  OnlyRead /\ OnlyMoved /\ OnlyStarted
<1>1. CASE StartUpdate(j)
  <2>1. /\ \A u \in Task : state'[j][u] \in {"wanted", "none"}
        /\ \A k \in Job \ {j} : state'[k] = state[k]
        /\ UNCHANGED <<name, made, out>>
    BY <1>1 DEF StartUpdate, JobInv, TypeOK, files
  <2>2. \A u \in Task : state[j][u] # "done"
    BY <1>1 DEF StartUpdate, PreviousEnded, NoneBefore
  <2> QED BY <2>1, <2>2, ContentQuiet
<1>2. CASE CheckComplete(j, t)
  <2>1. PICK s \in {"done", "found"} : Become(j, t, s)
    BY <1>2 DEF CheckComplete
  <2>2. {"done", "found"} \subseteq Status
    BY DEF Status
  <2>3. /\ state[j][t] = "wanted" /\ state'[j][t] = s
        /\ \A k \in Job, u \in Task : (k # j \/ u # t) => state'[k][u] = state[k][u]
        /\ UNCHANGED <<made, out>>
    BY <1>2, <2>1, <2>2, StatusStep DEF CheckComplete, JobInv, files
  <2>4. \A k \in Job, u \in Task : (k # j \/ u # t) => name'[k][u] = name[k][u]
    BY <1>2 DEF CheckComplete, JobInv, TypeOK
  <2> QED BY <2>3, <2>4, ContentQuiet
<1>3. CASE LookupFails(j, t)
  <2>1. "unknown" \in Status
    BY DEF Status
  <2>2. /\ state[j][t] = "wanted" /\ state'[j][t] = "unknown"
        /\ \A k \in Job, u \in Task : (k # j \/ u # t) => state'[k][u] = state[k][u]
        /\ UNCHANGED <<made, out, name>>
    BY <1>3, <2>1, StatusStep DEF LookupFails, JobInv, files
  <2> QED BY <2>2, ContentQuiet
<1>4. CASE Expand(j, t)
  <2>1. /\ state[j][t] = "found"
        /\ \A u \in Task : \/ u = t /\ state'[j][u] = "pending"
                           \/ u # t /\ state[j][u] = "none" /\ state'[j][u] = "wanted"
                           \/ u # t /\ state'[j][u] = state[j][u]
        /\ \A k \in Job \ {j} : state'[k] = state[k]
        /\ UNCHANGED <<made, out, name>>
    BY <1>4 DEF Expand, JobInv, TypeOK, files
  <2>2. \A k \in Job, u \in Task :
          /\ state'[k][u] \in {"started", "running"} => state'[k][u] = state[k][u]
          /\ state[k][u] = "done" => state'[k][u] = "done"
    BY <2>1
  <2> QED BY <2>1, <2>2, ContentQuiet
<1> QED BY <1>1, <1>2, <1>3, <1>4

LEMMA ContentSteps ==
  ASSUME JobInv, NoneBefore, InputsDone, [Next]_vars
  PROVE  OnlyRead /\ OnlyMoved /\ OnlyStarted
<1>1. CASE UNCHANGED <<out, state, name, made>>
  BY <1>1, ContentQuiet
<1>2. CASE UNCHANGED vars \/ NewDay \/ NewDump
  BY <1>1, <1>2 DEF vars, files, local, NewDay, NewDump
<1>3. ASSUME NEW j \in Job, Clean(j) PROVE OnlyRead /\ OnlyMoved /\ OnlyStarted
  <2>1. CASE StartCleanup(j) \/ \E t \in Task : ListDirectory(j, t)
    BY <1>1, <2>1 DEF StartCleanup, ListDirectory, files
  <2>2. ASSUME NEW t \in Task, NEW n \in Version, Remove(j, t, n)
        PROVE  OnlyRead /\ OnlyMoved /\ OnlyStarted
    <3>1. OnlyMoved
      BY <2>2 DEF Remove, OnlyMoved, JobInv, TypeOK
    <3>2. \A u \in Task : Requires[u] \subseteq Task
      BY StoreAssumption
    <3> QED BY <2>2, <3>1, <3>2 DEF Remove, OnlyRead, OnlyStarted, InputsDone
  <2> QED BY <1>3, <2>1, <2>2 DEF Clean
<1>4. ASSUME NEW j \in Job, StartUpdate(j) PROVE OnlyRead /\ OnlyMoved /\ OnlyStarted
  <2>1. CASE Task = {}
    BY <2>1 DEF OnlyRead, OnlyMoved, OnlyStarted
  <2> QED BY <1>4, <2>1, ContentSchedule
<1>5. ASSUME NEW j \in Job, FinishUpdate(j) \/ Crash(j) \/ Restart(j)
      PROVE  OnlyRead /\ OnlyMoved /\ OnlyStarted
  <2>1. \/ Exit(j) /\ UNCHANGED out
        \/ UNCHANGED <<out, state, name, made>>
    BY <1>5 DEF FinishUpdate, Crash, Restart, files
  <2> QED BY <1>1, <2>1, ContentExit
<1>6. ASSUME NEW j \in Job, Proceed(j) \/ GoWrong(j)
      PROVE  OnlyRead /\ OnlyMoved /\ OnlyStarted
  BY <1>3, <1>4, <1>5, <1>6, ContentSchedule, ContentWork
     DEF Proceed, GoWrong, Schedule, Work
<1> QED BY <1>2, <1>6 DEF Next

-----------------------------------------------------------------------------
LEMMA ContentInvInit == ASSUME NEW S PROVE Init => ContentInv(S)
<1> SUFFICES ASSUME Init PROVE ContentInv(S)
  OBVIOUS
<1>1. /\ \A j \in Job, t \in Task : state[j][t] = "none"
      /\ \A t \in Task, n \in Version : out[t][n] = {}
  BY DEF Init
<1> QED BY <1>1, NameInvInit DEF ContentInv, InputsDone, StoredInOrder, MadeInOrder,
           OfKind, NotOlder

LEMMA ContentInvNext ==
  ASSUME DumpsApart, NEW S, Daily \subseteq S, ContentInv(S), InOrder(S), [Next]_vars
  PROVE  ContentInv(S)'
<1>1. OnlyRead /\ OnlyMoved /\ OnlyStarted
  BY ContentSteps DEF ContentInv, NameInv
<1>2. NameInv'
  BY NameInvNext DEF ContentInv
<1>3. InputsDone'
  BY <1>1 DEF InputsDone, OnlyStarted
<1>4. MadeInOrder(S)'
  <2> SUFFICES ASSUME NEW j \in Job, NEW t \in Task, state'[j][t] = "running"
               PROVE  /\ OfKind(made'[j][t], t)
                      /\ t \in S => NotOlder(made'[j][t], t, name'[j][t])
    BY DEF MadeInOrder, OfKind, NotOlder
  <2>1. CASE state[j][t] = "running" /\ made'[j][t] = made[j][t]
    BY <1>1, <2>1 DEF OnlyRead, ContentInv, MadeInOrder
  <2>2. CASE state[j][t] = "started" /\ made'[j][t] = Source(j, t)
    BY <1>1, <2>2, SourceInOrder DEF OnlyRead
  <2> QED BY <1>1, <2>1, <2>2 DEF OnlyRead
<1>5. StoredInOrder(S)'
  <2> SUFFICES ASSUME NEW t \in Task, NEW n \in Version
               PROVE  /\ OfKind(out'[t][n], t)
                      /\ t \in S => NotOlder(out'[t][n], t, n)
    BY DEF StoredInOrder, OfKind, NotOlder
  <2>1. CASE out'[t][n] = out[t][n]
    BY <2>1 DEF ContentInv, StoredInOrder
  <2>2. CASE out'[t][n] = {}
    BY <2>2 DEF OfKind, NotOlder
  <2>3. CASE \E j \in Job : state[j][t] = "running" /\ n = name[j][t] /\ out'[t][n] = made[j][t]
    BY <2>3 DEF ContentInv, MadeInOrder
  <2> QED BY <1>1, <2>1, <2>2, <2>3 DEF OnlyMoved
<1> QED BY <1>2, <1>3, <1>4, <1>5 DEF ContentInv

(* A task that has started has a name, and so have its inputs.             *)
LEMMA InputsNamed ==
  ASSUME NameInv, InputsDone, NEW j \in Job, NEW t \in Task, state[j][t] = "started",
         NEW d \in Requires[t]
  PROVE  /\ phase[j] = "update" /\ state[j][d] = "done"
         /\ name[j][t] \in Version /\ name[j][d] \in Version
<1>1. d \in Task /\ state[j][d] = "done"
  BY StoreAssumption DEF InputsDone
<1>2. {"started", "done"} \subseteq Named /\ "started" \in Working
  BY DEF Named, Working
<1> QED BY <1>1, <1>2 DEF NameInv, JobInv, NamesKnown, WorkInUpdate

-----------------------------------------------------------------------------
(* If dumps appear only between updates, the tasks of an update all look   *)
(* up the same one, the latest.                                            *)
NoReleaseInUpdate == [][dump' # dump => \A j \in Job : phase[j] # "update"]_vars
NamesCurrent == \A j \in Job, t \in Task \ Daily :
                  phase[j] = "update" /\ name[j][t] # None => name[j][t] = dump

(* How a job comes to have a name.                                         *)
LEMMA NameSteps ==
  ASSUME NameInv, [Next]_vars, NEW j \in Job, NEW t \in Task \ Daily, phase'[j] = "update"
  PROVE  \/ phase[j] = "update" /\ name'[j][t] = name[j][t]
         \/ name'[j][t] = dump /\ dump' = dump
         \/ phase[j] \notin {"update", "restart"} /\ name'[j][t] = name[j][t]
<1> USE DEF NameInv, JobInv
<1>1. CASE UNCHANGED <<phase, name>>
  BY <1>1
<1>2. CASE UNCHANGED vars \/ NewDay \/ NewDump
  BY <1>1, <1>2 DEF vars, local, NewDay, NewDump
<1>3. ASSUME NEW k \in Job, Exit(k)
      PROVE  phase[j] = "update" /\ name'[j][t] = name[j][t]
  BY <1>3 DEF Exit, TypeOK
<1>4. ASSUME NEW k \in Job, Clean(k)
      PROVE  phase[j] = "update" /\ name'[j][t] = name[j][t]
  BY <1>4 DEF Clean, StartCleanup, ListDirectory, Remove, TypeOK
<1>5. ASSUME NEW k \in Job, StartUpdate(k)
      PROVE  phase[j] \notin {"restart"} /\ name'[j][t] = name[j][t]
  BY <1>5 DEF StartUpdate, PreviousEnded, TypeOK
<1>6. ASSUME NEW k \in Job, FinishUpdate(k), ~Exit(k)
      PROVE  phase[j] = "update" /\ name'[j][t] = name[j][t]
  BY <1>6 DEF FinishUpdate, TypeOK
<1>7. ASSUME NEW k \in Job, NEW u \in Task, CheckComplete(k, u)
      PROVE  \/ phase[j] = "update" /\ name'[j][t] = name[j][t]
             \/ name'[j][t] = dump /\ dump' = dump
  <2>1. UNCHANGED <<phase, dump>> /\ name' = [name EXCEPT ![k][u] = LookUp(k, u)]
    BY <1>7 DEF CheckComplete, world
  <2> QED BY <2>1 DEF LookUp, TypeOK
<1>8. ASSUME NEW k \in Job, NEW u \in Task,
             \/ Expand(k, u) \/ LookupFails(k, u)
             \/ BeginTask(k, u) \/ ReadInputs(k, u) \/ TaskFails(k, u) \/ MoveOutput(k, u)
             \/ FindLink(k, u) \/ RemoveLink(k, u) \/ MakeLink(k, u) \/ Retry(k, u)
      PROVE  UNCHANGED <<phase, name>>
  BY <1>8 DEF Expand, LookupFails, BeginTask, ReadInputs, TaskFails, MoveOutput, FindLink,
     RemoveLink, MakeLink, Retry
<1>9. ASSUME NEW k \in Job, Proceed(k) \/ GoWrong(k)
      PROVE  \/ phase[j] = "update" /\ name'[j][t] = name[j][t]
             \/ name'[j][t] = dump /\ dump' = dump
             \/ phase[j] \notin {"update", "restart"} /\ name'[j][t] = name[j][t]
  BY <1>1, <1>3, <1>4, <1>5, <1>6, <1>7, <1>8, <1>9
     DEF Proceed, GoWrong, Schedule, Work, Restart, Crash
<1> QED BY <1>2, <1>9 DEF Next

LEMMA NamesCurrentNext ==
  ASSUME NameInv, NamesCurrent, [Next]_vars,
         [dump' # dump => \A j \in Job : phase[j] # "update"]_vars
  PROVE  NamesCurrent'
<1> SUFFICES ASSUME NEW j \in Job, NEW t \in Task \ Daily,
                    phase'[j] = "update", name'[j][t] # None
             PROVE  name'[j][t] = dump'
  BY DEF NamesCurrent
<1>1. CASE phase[j] = "update" /\ name'[j][t] = name[j][t]
  BY <1>1 DEF NamesCurrent, vars, world
<1>2. CASE name'[j][t] = dump /\ dump' = dump
  BY <1>2
<1>3. CASE phase[j] \notin {"update", "restart"} /\ name'[j][t] = name[j][t]
  BY <1>3 DEF NameInv, Unnamed, NoneBefore, Named, Working, Linking
<1> QED BY <1>1, <1>2, <1>3, NameSteps

(* However many jobs run over each other, crash and fail, no output is     *)
(* made from something older than its name says as long as no dump is      *)
(* released while an update runs (tasks.py:61-62, 75-79); the run          *)
(* changing_dump shows that this condition cannot be dropped.              *)
THEOREM NamesTellContent ==
  ASSUME DumpsApart
  PROVE  Spec /\ NoReleaseInUpdate => []NameTellsContent
<1> DEFINE Inv == ContentInv(Task) /\ NamesCurrent
<1>1. Init => Inv
  BY ContentInvInit DEF Init, NamesCurrent
<1>2. ASSUME Inv, [Next]_vars, [dump' # dump => \A j \in Job : phase[j] # "update"]_vars
      PROVE  Inv'
  <2>1. NamesCurrent'
    BY <1>2, NamesCurrentNext DEF ContentInv
  <2>2. InOrder(Task)
    <3> SUFFICES ASSUME NEW j \in Job, NEW t \in Task \ Daily, state[j][t] = "started",
                        NEW d \in Requires[t] \ Daily
                 PROVE  d \in Task /\ name[j][t] <= name[j][d]
      BY DEF InOrder
    <3>1. d \in Task
      BY StoreAssumption
    <3>2. name[j][t] = dump /\ name[j][d] = dump /\ dump \in Int
      BY <1>2, <3>1, InputsNamed, Versions DEF ContentInv, NamesCurrent, NameInv, JobInv, TypeOK
    <3> QED BY <3>1, <3>2
  <2> QED BY <1>2, <2>1, <2>2, StoreAssumption, ContentInvNext
<1>3. Inv => NameTellsContent
  BY DEF ContentInv, StoredInOrder, NotOlder, NameTellsContent
<1> HIDE DEF Inv
<1> QED BY <1>1, <1>2, <1>3, PTL DEF Spec, NoReleaseInUpdate

(* Whenever dumps are released, dates tell what files named by them hold,  *)
(* and so do the hashes of tasks which alone need what they are built      *)
(* from, as the archive and the single file of citations (ChainBegins in   *)
(* LabeTasks): a dump that is released in between is seen by the input     *)
(* first.                                                                  *)
THEOREM UnsharedNamesTellContent ==
  ASSUME DumpsApart
  PROVE  Spec => [](\A t \in Daily \cup Chained, n \in Version : \A s \in out[t][n] :
                      (s[1] \in Daily <=> t \in Daily) => s[2] >= n)
<1> DEFINE S == Daily \cup Chained
           Inv == ContentInv(S)
           Tells == \A t \in S, n \in Version : \A s \in out[t][n] :
                      (s[1] \in Daily <=> t \in Daily) => s[2] >= n
<1>1. Init => Inv
  BY ContentInvInit
<1>2. ASSUME Inv, [Next]_vars PROVE Inv'
  <2>1. InOrder(S)
    <3> SUFFICES ASSUME NEW j \in Job, NEW t \in Chained, state[j][t] = "started",
                        NEW d \in Requires[t] \ Daily
                 PROVE  d \in Chained /\ name[j][t] <= name[j][d]
      BY DEF InOrder
    <3>1. t \in Task /\ d \in Chained
      BY ChainedClosed DEF Chained
    <3>2. state[j][d] = "done" /\ name[j][d] # None
      BY <1>2, <3>1, InputsNamed, Versions DEF ContentInv
    <3> QED BY <1>2, <3>1, <3>2 DEF ContentInv, NameInv, DumpsInOrder
  <2> QED BY <1>2, <2>1, ContentInvNext
<1>3. Inv => Tells
  BY StoreAssumption DEF ContentInv, StoredInOrder, NotOlder, Chained
<1> HIDE DEF Inv, Tells
<1>4. Spec => []Tells
  BY <1>1, <1>2, <1>3, PTL DEF Spec
<1> QED BY <1>4 DEF Tells

-----------------------------------------------------------------------------
(* Sources.  The equation that defines Sources has a solution, whatever    *)
(* the graph: the tasks without inputs among those that can be reached.    *)
LEMMA SourcesDef ==
  ASSUME NEW t \in Task
  PROVE  Sources[t] = IF Requires[t] = {} THEN {t} ELSE UNION {Sources[d] : d \in Requires[t]}
<1> DEFINE ends(u) == {s \in Reach(u) : Requires[s] = {}}
           G == [u \in Task |-> ends(u)]
           Next1(f) == [u \in Task |-> IF Requires[u] = {} THEN {u}
                                       ELSE UNION {f[d] : d \in Requires[u]}]
<1>1. \A u \in Task : Requires[u] \subseteq Task
  BY StoreAssumption
<1>2. ASSUME NEW u \in Task, Requires[u] = {} PROVE ends(u) = {u}
  <2>1. {u} \in SUBSET Task /\ Closed({u})
    BY <1>2 DEF Closed
  <2>2. Reach(u) = {u}
    BY <2>1, ReachClosed DEF Reach
  <2> QED BY <1>2, <2>2
<1>3. ASSUME NEW u \in Task, Requires[u] # {}
      PROVE  ends(u) = UNION {ends(d) : d \in Requires[u]}
  <2>1. ASSUME NEW d \in Requires[u], NEW s \in Reach(d) PROVE s \in Reach(u)
    BY <1>1, <2>1 DEF Reach, Closed
  <2>2. ASSUME NEW s \in ends(u) PROVE \E d \in Requires[u] : s \in ends(d)
    <3> DEFINE S == {u} \cup UNION {Reach(d) : d \in Requires[u]}
    <3>1. \A d \in Requires[u] : d \in Reach(d) /\ Reach(d) \subseteq Task /\ Closed(Reach(d))
      BY <1>1, ReachClosed
    <3>2. S \in SUBSET Task
      BY <3>1
    <3>3. Closed(S)
      <4> SUFFICES ASSUME NEW v \in S, NEW e \in Requires[v] PROVE e \in S
        BY DEF Closed
      <4>1. CASE v = u
        BY <3>1, <4>1
      <4>2. ASSUME NEW d \in Requires[u], v \in Reach(d) PROVE e \in S
        BY <3>1, <4>2 DEF Closed
      <4> QED BY <4>1, <4>2
    <3>4. s \in S
      BY <2>2, <3>2, <3>3 DEF Reach
    <3>5. s # u
      BY <1>3, <2>2
    <3> QED BY <2>2, <3>4, <3>5
  <2> QED BY <2>1, <2>2
<1>4. G = Next1(G)
  <2>1. \A u \in Task : ends(u) = IF Requires[u] = {} THEN {u}
                                  ELSE UNION {G[d] : d \in Requires[u]}
    <3> HIDE DEF ends
    <3>1. ASSUME NEW u \in Task PROVE {G[d] : d \in Requires[u]} = {ends(d) : d \in Requires[u]}
      BY <1>1
    <3> QED BY <1>2, <1>3, <3>1
  <2> QED BY <2>1
<1> HIDE DEF G
<1>5. Sources = Next1(Sources)
  BY <1>4 DEF Sources
<1> QED BY <1>5

-----------------------------------------------------------------------------
(* What a set of tasks is built from.                                      *)
Names(c) == {s[1] : s \in c}
BuiltOf(S) == \A t \in S, n \in Version : out[t][n] # {} => Names(out[t][n]) = Sources[t]
MadeOf(S) == \A j \in Job, t \in S : state[j][t] = "running" => Names(made[j][t]) = Sources[t]
NoneMissing(S) == \A j \in Job, t \in S :
                    state[j][t] = "started" /\ t \in Lenient => Missing(j, t) = {}

LEMMA SourceNames ==
  ASSUME NEW S \in SUBSET Task, Closed(S), JobInv, InputsDone, BuiltOf(S),
         NEW j \in Job, NEW t \in S, state[j][t] = "started", Missing(j, t) = {}
  PROVE  Names(Source(j, t)) = Sources[t]
<1>1. Requires[t] \subseteq S /\ S \subseteq Task
  BY DEF Closed
<1>2. CASE Requires[t] = {}
  <2>1. Source(j, t) = {<<t, name[j][t]>>}
    BY <1>2 DEF Source
  <2>2. Names(Source(j, t)) = {t}
    BY <2>1 DEF Names
  <2>3. t \in Task
    BY <1>1
  <2>4. Sources[t] = {t}
    BY ONLY <1>2, <2>3, SourcesDef
  <2> QED BY <2>2, <2>4
<1>3. CASE Requires[t] # {}
  <2>1. Source(j, t) = UNION {out[d][name[j][d]] : d \in Requires[t]}
    BY <1>3 DEF Source
  <2>2. \A d \in Requires[t] : Names(out[d][name[j][d]]) = Sources[d]
    <3> SUFFICES ASSUME NEW d \in Requires[t] PROVE Names(out[d][name[j][d]]) = Sources[d]
      OBVIOUS
    <3>1. state[j][d] = "done" /\ Exists(d, name[j][d])
      BY <1>1 DEF InputsDone, Missing
    <3>2. name[j][d] \in Version
      BY <1>1, <3>1 DEF JobInv, NamesKnown, Named
    <3> QED BY <1>1, <3>1, <3>2 DEF BuiltOf, Exists
  <2>3. ASSUME NEW x
        PROVE  x \in Names(Source(j, t)) <=> \E d \in Requires[t] : x \in Sources[d]
    <3>1. x \in Names(Source(j, t))
            <=> \E d \in Requires[t] : x \in Names(out[d][name[j][d]])
      BY <2>1 DEF Names
    <3> QED BY <2>2, <3>1
  <2>4. Names(Source(j, t)) = UNION {Sources[d] : d \in Requires[t]}
    <3> DEFINE src == UNION {Sources[d] : d \in Requires[t]}
    <3>1. \A x : x \in src <=> \E d \in Requires[t] : x \in Sources[d]
      OBVIOUS
    <3> HIDE DEF src
    <3> QED BY <2>3, <3>1
  <2> QED BY <1>1, <1>3, <2>4, SourcesDef
<1> QED BY <1>2, <1>3

LEMMA BuiltNext ==
  ASSUME NEW S \in SUBSET Task, Closed(S), JobInv, NoneBefore, InputsDone, NoneMissing(S),
         BuiltOf(S), MadeOf(S), [Next]_vars
  PROVE  BuiltOf(S)' /\ MadeOf(S)'
<1>1. OnlyRead /\ OnlyMoved
  BY ContentSteps
<1>2. MadeOf(S)'
  <2> SUFFICES ASSUME NEW j \in Job, NEW t \in S, state'[j][t] = "running"
               PROVE  Names(made'[j][t]) = Sources[t]
    BY DEF MadeOf, Names
  <2>1. CASE state[j][t] = "running" /\ made'[j][t] = made[j][t]
    BY <2>1 DEF MadeOf
  <2>2. CASE /\ state[j][t] = "started" /\ made'[j][t] = Source(j, t)
             /\ Missing(j, t) = {} \/ t \in Lenient
    BY <2>2, SourceNames DEF NoneMissing
  <2> QED BY <1>1, <2>1, <2>2 DEF OnlyRead
<1>3. BuiltOf(S)'
  <2> SUFFICES ASSUME NEW t \in S, NEW n \in Version, out'[t][n] # {}
               PROVE  Names(out'[t][n]) = Sources[t]
    BY DEF BuiltOf, Names
  <2>1. CASE out'[t][n] = out[t][n]
    BY <2>1 DEF BuiltOf
  <2>2. CASE \E j \in Job : state[j][t] = "running" /\ n = name[j][t] /\ out'[t][n] = made[j][t]
    BY <2>2 DEF MadeOf
  <2> QED BY <1>1, <2>1, <2>2 DEF OnlyMoved
<1> QED BY <1>2, <1>3

(* Tasks that are built without process substitution all the way down.     *)
Strict == {t \in Task : Reach(t) \cap Lenient = {}}

LEMMA StrictClosed == Strict \in SUBSET Task /\ Closed(Strict)
<1> SUFFICES ASSUME NEW t \in Strict, NEW d \in Requires[t] PROVE d \in Strict
  BY DEF Closed, Strict
<1>1. d \in Task
  BY StoreAssumption DEF Strict
<1>2. d \in Reach(t) /\ Closed(Reach(t)) /\ Reach(t) \in SUBSET Task
  BY ReachClosed DEF Strict, Closed
<1>3. Reach(d) \subseteq Reach(t)
  BY <1>1, <1>2 DEF Reach
<1> QED BY <1>1, <1>3 DEF Strict

(* However many jobs run and remove files under each other, an output that *)
(* is made without process substitution has been built from all it needs:  *)
(* this is so for all databases of the server (UpdateIsStrict).            *)
THEOREM StrictBuiltFromAll ==
  Spec => [](\A t \in Strict, n \in Version :
               out[t][n] # {} => {s[1] : s \in out[t][n]} = Sources[t])
<1> DEFINE Inv == NameInv /\ InputsDone /\ BuiltOf(Strict) /\ MadeOf(Strict)
<1>1. Init => Inv
  BY NameInvInit DEF Init, InputsDone, BuiltOf, MadeOf, Strict
<1>2. ASSUME Inv, [Next]_vars PROVE Inv'
  <2>1. NameInv' /\ OnlyStarted
    BY <1>2, NameInvNext, ContentSteps DEF NameInv
  <2>2. NoneMissing(Strict)
    BY ReachClosed DEF NoneMissing, Strict
  <2>3. BuiltOf(Strict)' /\ MadeOf(Strict)'
    BY <1>2, <2>2, StrictClosed, BuiltNext DEF NameInv
  <2> QED BY <2>1, <2>3 DEF InputsDone, OnlyStarted
<1>3. Spec => []BuiltOf(Strict)
  <2> HIDE DEF Inv
  <2>1. Inv => BuiltOf(Strict)
    BY DEF Inv
  <2> QED BY <1>1, <1>2, <2>1, PTL DEF Spec
<1> QED BY <1>3 DEF BuiltOf, Names

(* If no task uses process substitution, every output is.                  *)
COROLLARY PipesBuildFromAll ==
  ASSUME Lenient = {}
  PROVE  Spec => []BuiltFromAll
<1>1. Strict = Task
  BY DEF Strict
<1> QED BY <1>1, StrictBuiltFromAll DEF BuiltFromAll
=============================================================================
