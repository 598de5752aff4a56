---------------------------- MODULE DeploymentProofs ----------------------------
(***************************************************************************)
(* Proofs about Deployment for any number of databases, versions and       *)
(* requests, any number of faults and any limit on starts.                 *)
(***************************************************************************)
EXTENDS Deployment, TLAPS

(* A process without a cache has no connections and one that does not      *)
(* serve has no requests; the cache is empty until then; while it runs,    *)
(* "since" has all that is linked, and all that it has read.               *)
NothingOpen == /\ proc \notin Up => conns = NoConns
               /\ proc \notin {"serving", "removed"} => \A c \in Conn : read[c] = {}
CacheStartsEmpty == proc \in {"created", "ping"} => cached = {}
LinksSeen == proc \notin {"inactive", "failed"} => \A d \in Db : Linked(d) \subseteq since[d]
ReadsSeen == proc \in Up =>
  /\ \A d \in Db : conns[d] \subseteq since[d]
  /\ \A e \in cached : e[2] \in since[e[1]]
  /\ \A c \in Conn : \A e \in read[c] : e[2] \in since[e[1]]

IInv == TypeOK /\ NothingOpen /\ CacheStartsEmpty /\ LinksSeen /\ ReadsSeen

-----------------------------------------------------------------------------
(* Type correctness.                                                       *)

LEMMA InitType == Init => TypeOK
<1> SUFFICES ASSUME Init PROVE TypeOK
  OBVIOUS
<1>1. /\ stored \in [Db -> [Version -> {Built, Absent}]]
      /\ link \in [Db -> Version \cup {None}]
  BY DEF Init, Output!ReleasesInit
<1>2. Len(Queries) \in Nat
  BY DeploymentAssumption
<1> QED
  BY <1>1, <1>2, DeploymentAssumption DEF Init, TypeOK, Life, NoConns

LEMMA LeaveType ==
  ASSUME left \subseteq {"file", "rows", "journal"}, Leave \/ LeaveJournal
  PROVE  left' \subseteq {"file", "rows", "journal"}
<1>1. \A J \in Journal : J \subseteq {"journal"}
  BY DEF Journal
<1> QED BY <1>1 DEF Leave, LeaveJournal

(* The steps of the process before it serves, and its ends.                *)
LEMMA ProcessType ==
  ASSUME TypeOK,
         \/ \E d \in Db : Stat(d) \/ Ping(d)
         \/ CreateCache \/ CacheFails \/ SetupCache \/ Serve \/ ListenFails \/ RemoveCache
         \/ ExitProcess \/ DieEarly \/ Kill
  PROVE  TypeOK'
<1> USE DEF TypeOK, files, process, requests
<1>1. Len(Queries) \in Nat /\ MaxFaults \in Nat
  BY DeploymentAssumption
<1>2. ASSUME NEW d \in Db, Stat(d) PROVE TypeOK'
  BY <1>2 DEF Stat, Life
<1>3. ASSUME NEW d \in Db, Ping(d) PROVE TypeOK'
  <2>1. conns' \in [Db -> SUBSET Version]
    <3>1. Openable(d) \subseteq Version
      BY DEF Openable, Linked
    <3>2. CASE conns' = NoConns
      BY <3>2 DEF NoConns
    <3>3. ASSUME NEW n \in Openable(d), conns' = [conns EXCEPT ![d] = {n}]
          PROVE  conns' \in [Db -> SUBSET Version]
      BY <3>1, <3>3
    <3> QED BY <1>3, <3>2, <3>3 DEF Ping
  <2>2. pending' \subseteq Db /\ proc' \in Life /\ left' \subseteq {"file", "rows", "journal"}
    BY <1>3, LeaveType DEF Ping, Life
  <2>3. UNCHANGED <<files, job, faults, starts, requests, cached>>
    BY <1>3 DEF Ping
  <2> QED BY <2>1, <2>2, <2>3
<1>4. CASE CreateCache \/ SetupCache \/ Serve \/ RemoveCache
  BY <1>4 DEF CreateCache, SetupCache, Serve, RemoveCache, Life
<1>5. CASE ListenFails \/ Kill \/ CacheFails
  <2>1. faults' \in 0 .. MaxFaults
    BY <1>1, <1>5 DEF ListenFails, Kill, CacheFails, Fault
  <2>2. /\ pending' \subseteq Db /\ conns' \in [Db -> SUBSET Version]
        /\ at' \in [Conn -> 0 .. Len(Queries) + 1]
        /\ read' \in [Conn -> SUBSET (Db \X Version)]
    BY <1>1, <1>5 DEF ListenFails, Kill, CacheFails, Close, NoConns
  <2>3. proc' \in Life /\ left' \subseteq {"file", "rows", "journal"}
    BY <1>5, LeaveType DEF ListenFails, Kill, CacheFails, Life
  <2>4. UNCHANGED <<files, job, starts, cached>>
    BY <1>5 DEF ListenFails, Kill, CacheFails
  <2> QED BY <2>1, <2>2, <2>3, <2>4
<1>6. CASE ExitProcess
  <2>1. left' \subseteq {"file", "rows", "journal"}
    BY <1>6, LeaveType DEF ExitProcess
  <2> QED BY <1>1, <1>6, <2>1 DEF ExitProcess, Close, Life, NoConns
<1>7. CASE DieEarly
  BY <1>7 DEF DieEarly, Life
<1> QED BY <1>2, <1>3, <1>4, <1>5, <1>6, <1>7

LEMMA RequestType ==
  ASSUME TypeOK, NEW c \in Conn, Receive(c) \/ Handle(c) \/ RecreateCache(c)
  PROVE  TypeOK'
<1> USE DEF TypeOK, files, process, requests
<1>1. /\ Len(Queries) \in Nat /\ DOMAIN Queries = 1 .. Len(Queries)
      /\ \A n \in DOMAIN Queries : Queries[n] \in Db
  BY DeploymentAssumption
<1>2. CASE Receive(c)
  <2>1. at' \in [Conn -> 0 .. Len(Queries) + 1]
    BY <1>1, <1>2 DEF Receive
  <2> QED BY <1>2, <2>1 DEF Receive
<1>3. CASE Query(c)
  <2>1. /\ at[c] \in DOMAIN Queries /\ at' = [at EXCEPT ![c] = @ + 1]
        /\ UNCHANGED <<files, job, faults, process, cached, left>>
    BY <1>3 DEF Query
  <2>2. PICK n \in conns[Queries[at[c]]] \cup Openable(Queries[at[c]]) :
          /\ conns' = [conns EXCEPT ![Queries[at[c]]] = @ \cup {n}]
          /\ read' = [read EXCEPT ![c] = @ \cup {<<Queries[at[c]], n>>}]
    BY <1>3 DEF Query
  <2>3. Queries[at[c]] \in Db /\ n \in Version
    BY <1>1, <2>1, <2>2 DEF Openable, Linked
  <2>4. at' \in [Conn -> 0 .. Len(Queries) + 1]
    BY <1>1, <2>1
  <2> QED BY <2>1, <2>2, <2>3, <2>4
<1>4. CASE QueryFails(c) \/ Reply(c)
  <2>1. /\ at' = [at EXCEPT ![c] = 0] /\ read' = [read EXCEPT ![c] = {}]
        /\ cached' \in {cached, cached \cup read[c]}
        /\ UNCHANGED <<files, job, faults, process, conns, left>>
    BY <1>4 DEF QueryFails, Reply
  <2>2. at' \in [Conn -> 0 .. Len(Queries) + 1]
    BY <1>1, <2>1
  <2>3. read' \in [Conn -> SUBSET (Db \X Version)] /\ cached' \subseteq Db \X Version
    BY <2>1
  <2> QED BY <2>1, <2>2, <2>3
<1>5. CASE RecreateCache(c)
  BY <1>5 DEF RecreateCache
<1> QED BY <1>2, <1>3, <1>4, <1>5 DEF Handle

LEMMA ControlType ==
  ASSUME TypeOK,
         AutoRestart \/ TimePasses \/ StartJob \/ FinishUpdate \/ StartAgain \/ Update \/ CrashJob
  PROVE  TypeOK'
<1> USE DEF TypeOK, files, process, requests
<1>1. StartLimit \in Nat \ {0} /\ MaxFaults \in Nat
  BY DeploymentAssumption
<1>2. CASE AutoRestart
  <2>1. starts' \in 0 .. StartLimit
    BY <1>1, <1>2 DEF AutoRestart
  <2>2. since' \in [Db -> SUBSET Version]
    BY <1>2 DEF AutoRestart, Start, Linked
  <2> QED BY <1>2, <2>1, <2>2 DEF AutoRestart, Start, Life
<1>3. CASE TimePasses \/ StartJob \/ FinishUpdate \/ CrashJob
  <2>1. starts' \in 0 .. StartLimit /\ faults' \in 0 .. MaxFaults
    BY <1>1, <1>3 DEF TimePasses, StartJob, FinishUpdate, CrashJob, Fault
  <2>2. CASE TimePasses \/ CrashJob
    BY <2>1, <2>2 DEF TimePasses, CrashJob
  <2>3. CASE StartJob \/ FinishUpdate
    BY <2>1, <2>3 DEF StartJob, FinishUpdate
  <2> QED BY <1>3, <2>2, <2>3
<1>4. CASE StartAgain
  <2>1. starts' \in 0 .. StartLimit
    BY <1>1, <1>4 DEF StartAgain
  <2>2. since' \in [Db -> SUBSET Version]
    BY <1>4 DEF StartAgain, Start, Linked
  <2> QED BY <1>4, <2>1, <2>2 DEF StartAgain, Start, Life
<1>5. CASE Update
  <2>1. PICK d \in Db :
          \/ Output!Unpoint(d)
          \/ \E n \in Version : \/ Output!Discard(d, n) \/ Output!Point(d, n)
                                 \/ \E b \in {Built} : Output!Publish(d, n, b)
    BY <1>5 DEF Update, Output!ReleasesNext
  <2>2. link' \in [Db -> Version \cup {None}]
    BY <2>1 DEF Output!Unpoint, Output!Point, Output!Publish, Output!Discard
  <2>3. ASSUME UNCHANGED stored
        PROVE  stored' \in [Db -> [Version -> {Built, Absent}]]
    BY <2>3
  <2>4. ASSUME NEW n \in Version, NEW b \in {Built, Absent},
               stored' = [stored EXCEPT ![d][n] = b]
        PROVE  stored' \in [Db -> [Version -> {Built, Absent}]]
    BY <2>4
  <2>5. stored' \in [Db -> [Version -> {Built, Absent}]]
    <3>1. CASE Output!Unpoint(d) \/ \E n \in Version : Output!Point(d, n)
      BY <2>3, <3>1 DEF Output!Unpoint, Output!Point
    <3>2. ASSUME NEW n \in Version, Output!Discard(d, n)
          PROVE  stored' \in [Db -> [Version -> {Built, Absent}]]
      BY <2>4, <3>2 DEF Output!Discard
    <3>3. ASSUME NEW n \in Version, Output!Publish(d, n, Built)
          PROVE  stored' \in [Db -> [Version -> {Built, Absent}]]
      BY <2>4, <3>3 DEF Output!Publish
    <3> QED BY <2>1, <3>1, <3>2, <3>3
  <2>6. since' \in [Db -> SUBSET Version]
    BY <1>5, <2>2 DEF Update
  <2> QED BY <1>5, <2>2, <2>5, <2>6 DEF Update
<1> QED BY <1>2, <1>3, <1>4, <1>5

LEMMA StepType == TypeOK /\ [Next]_vars => TypeOK'
<1> SUFFICES ASSUME TypeOK, [Next]_vars PROVE TypeOK'
  OBVIOUS
<1>1. CASE UNCHANGED vars
  BY <1>1 DEF vars, files, process, requests, TypeOK
<1>2. CASE Next
  BY <1>2, ProcessType, RequestType, ControlType DEF Next, Proceed, Job, Stop
<1> QED BY <1>1, <1>2

(* Process, cache file, connections, systemd and the job keep to their     *)
(* types, for any queries and any number of databases and requests.        *)
THEOREM TypeCorrect == Spec => []TypeOK
<1>1. Init => TypeOK
  BY InitType
<1>2. TypeOK /\ [Next]_vars => TypeOK'
  BY StepType
<1> QED BY <1>1, <1>2, PTL DEF Spec

-----------------------------------------------------------------------------
(* What labed answers from.                                                *)

LEMMA InitInv == Init => IInv
<1> SUFFICES ASSUME Init PROVE IInv
  OBVIOUS
<1>1. proc = "inactive" /\ conns = NoConns /\ \A c \in Conn : read[c] = {}
  BY DEF Init
<1> QED
  BY <1>1, InitType DEF IInv, NothingOpen, CacheStartsEmpty, LinksSeen, ReadsSeen, Up

(* The end of a process, and steps before it serves.                       *)
LEMMA ProcessStep ==
  ASSUME IInv, TypeOK',
         \/ \E d \in Db : Stat(d) \/ Ping(d)
         \/ CreateCache \/ CacheFails \/ SetupCache \/ Serve \/ ListenFails \/ RemoveCache
         \/ ExitProcess \/ DieEarly \/ Kill
  PROVE  IInv'
<1> USE DEF IInv, NothingOpen, CacheStartsEmpty, LinksSeen, ReadsSeen, Up
<1>1. since' = since /\ link' = link
  BY DEF Stat, Ping, CreateCache, CacheFails, SetupCache, Serve, ListenFails, RemoveCache,
     ExitProcess, DieEarly, Kill, files
<1>2. CASE Close /\ proc' \in {"inactive", "failed"}
  BY <1>2 DEF Close
<1>3. CASE (\E d \in Db : Stat(d)) \/ CacheFails \/ DieEarly
  <2>1. /\ proc \in {"stat", "created"} /\ UNCHANGED <<conns, read, cached>>
        /\ proc' \in {proc, "failed", "inactive"}
    BY <1>3 DEF Stat, CacheFails, DieEarly, requests
  <2> QED BY <1>1, <2>1 DEF Linked
<1>4. CASE CreateCache \/ SetupCache
  <2>1. \/ proc = "stat" /\ proc' = "created" /\ cached' = {}
        \/ proc = "created" /\ proc' = "ping" /\ cached' = cached
    BY <1>4 DEF CreateCache, SetupCache
  <2>2. UNCHANGED <<conns, read>>
    BY <1>4 DEF CreateCache, SetupCache, requests
  <2> QED BY <1>1, <2>1, <2>2 DEF Linked, NoConns
<1>5. CASE Serve \/ RemoveCache
  <2>1. /\ proc \in Up /\ proc' \in {"serving", "removed"}
        /\ UNCHANGED <<conns, read, cached>>
    BY <1>5 DEF Serve, RemoveCache, requests
  <2> QED BY <1>1, <2>1 DEF Linked
<1>6. CASE ListenFails \/ ExitProcess \/ Kill
  BY <1>2, <1>6 DEF ListenFails, ExitProcess, Kill
<1>7. ASSUME NEW d \in Db, Ping(d) PROVE IInv'
  <2>1. UNCHANGED <<read, cached>> /\ proc = "ping"
    BY <1>7 DEF Ping, requests
  <2>2. CASE proc' = "failed" /\ conns' = NoConns
    BY <2>1, <2>2
  <2>3. ASSUME NEW n \in Openable(d), conns' = [conns EXCEPT ![d] = {n}], proc' = proc
        PROVE  IInv'
    <3>1. n \in since[d]
      BY <2>1, <2>3 DEF Openable
    <3>2. \A e \in Db : conns'[e] \subseteq since'[e]
      BY <1>1, <2>1, <2>3, <3>1 DEF TypeOK
    <3> QED BY <1>1, <2>1, <2>3, <3>2 DEF Linked
  <2> QED BY <1>7, <2>2, <2>3 DEF Ping
<1> QED BY <1>3, <1>4, <1>5, <1>6, <1>7

(* Requests read what open connections read, or what is linked.            *)
LEMMA RequestStep ==
  ASSUME IInv, TypeOK', NEW c \in Conn, Receive(c) \/ Handle(c) \/ RecreateCache(c)
  PROVE  IInv'
<1> USE DEF IInv, NothingOpen, CacheStartsEmpty, LinksSeen, ReadsSeen, Up
<1>1. /\ UNCHANGED <<since, link, proc>> /\ proc \in {"serving", "removed"}
  BY DEF Receive, Handle, Query, QueryFails, Reply, RecreateCache, Running, files, process
<1>2. \A d \in Db : Linked(d)' = Linked(d)
  BY <1>1 DEF Linked
<1>3. CASE Receive(c) \/ RecreateCache(c)
  <2>1. UNCHANGED <<conns, read, cached>>
    BY <1>3 DEF Receive, RecreateCache, requests
  <2> QED BY <1>1, <1>2, <2>1
<1>4. CASE Query(c)
  <2> DEFINE d == Queries[at[c]]
  <2>1. d \in Db /\ cached' = cached
    BY <1>4, DeploymentAssumption DEF Query
  <2>2. PICK n \in conns[d] \cup Openable(d) :
          /\ conns' = [conns EXCEPT ![d] = @ \cup {n}]
          /\ read' = [read EXCEPT ![c] = @ \cup {<<d, n>>}]
    BY <1>4 DEF Query
  <2> HIDE DEF d
  <2>3. n \in since[d]
    BY <1>1, <2>1, <2>2 DEF Openable
  <2>4. \A e \in Db : conns'[e] \subseteq since'[e]
    BY <1>1, <2>1, <2>2, <2>3 DEF TypeOK
  <2>5. \A b \in Conn : read'[b] \subseteq read[b] \cup {<<d, n>>}
    BY <2>2 DEF TypeOK
  <2>6. \A e \in {<<d, n>>} : e[2] \in since[e[1]]
    BY <2>3
  <2>7. \A b \in Conn : \A e \in read'[b] : e[2] \in since'[e[1]]
    BY <1>1, <2>5, <2>6
  <2> QED BY <1>1, <1>2, <2>1, <2>4, <2>7
<1>5. CASE QueryFails(c) \/ Reply(c)
  <2>1. read' = [read EXCEPT ![c] = {}] /\ conns' = conns /\ cached' \subseteq cached \cup read[c]
    BY <1>5 DEF QueryFails, Reply
  <2>2. \A b \in Conn : read'[b] \subseteq read[b]
    BY <2>1 DEF TypeOK
  <2> QED BY <1>1, <1>2, <2>1, <2>2
<1> QED BY <1>3, <1>4, <1>5 DEF Handle

(* systemd, the nightly job and what it does to the links.                 *)
LEMMA ControlStep ==
  ASSUME IInv, TypeOK',
         AutoRestart \/ TimePasses \/ StartJob \/ FinishUpdate \/ StartAgain \/ Update \/ CrashJob
  PROVE  IInv'
<1> USE DEF IInv, NothingOpen, CacheStartsEmpty, LinksSeen, ReadsSeen, Up
<1>1. UNCHANGED <<conns, read, cached>>
  BY DEF AutoRestart, TimePasses, StartJob, FinishUpdate, StartAgain, Update, CrashJob, requests
<1>2. CASE AutoRestart \/ StartAgain
  <2>1. /\ proc \in {"inactive", "failed"} /\ link' = link
        /\ proc' = "inactive" \/ Start
    BY <1>2 DEF AutoRestart, StartAgain
  <2>2. CASE Start
    BY <1>1, <2>1, <2>2 DEF Start, Linked, TypeOK
  <2> QED BY <1>1, <2>1, <2>2
<1>3. CASE TimePasses \/ StartJob \/ FinishUpdate \/ CrashJob
  BY <1>1, <1>3 DEF TimePasses, StartJob, FinishUpdate, CrashJob, files, process, Linked
<1>4. CASE Update
  <2>1. proc' = proc /\ since' = [d \in Db |-> since[d] \cup ({link'[d]} \ {None})]
    BY <1>4 DEF Update, process
  <2>2. \A d \in Db : since[d] \subseteq since'[d] /\ Linked(d)' \subseteq since'[d]
    BY <2>1 DEF Linked
  <2>3. \A e \in Db \X Version : e[2] \in since[e[1]] => e[2] \in since'[e[1]]
    BY <2>2
  <2>4. cached \subseteq Db \X Version /\ \A c \in Conn : read[c] \subseteq Db \X Version
    BY DEF TypeOK
  <2> QED BY <1>1, <2>1, <2>2, <2>3, <2>4
<1> QED BY <1>2, <1>3, <1>4

LEMMA Inductive == IInv /\ [Next]_vars => IInv'
<1> SUFFICES ASSUME IInv, [Next]_vars PROVE IInv'
  OBVIOUS
<1>1. TypeOK'
  BY StepType DEF IInv
<1>2. CASE UNCHANGED vars
  BY <1>1, <1>2 DEF vars, files, process, requests, IInv, NothingOpen, CacheStartsEmpty,
     LinksSeen, ReadsSeen, Linked
<1>3. CASE Next
  BY <1>1, <1>3, ProcessStep, RequestStep, ControlStep DEF Next, Proceed, Job, Stop
<1> QED BY <1>2, <1>3

(* Wherever links move to, and whenever the process is killed, stopped or  *)
(* restarted: no answer is made from a database that was replaced before   *)
(* labed was started.                                                      *)
THEOREM AnswersSinceStart == Spec => []NoAnswerFromBefore
<1>1. IInv => NoAnswerFromBefore
  <2> SUFFICES ASSUME IInv, proc \in Up, NEW d \in Db, NEW n \in Reads(d)
               PROVE  n \in since[d]
    BY DEF NoAnswerFromBefore
  <2>1. CASE n \in conns[d]
    BY <2>1 DEF IInv, ReadsSeen
  <2>2. CASE <<d, n>> \in cached \/ \E c \in Conn : <<d, n>> \in read[c]
    <3>1. <<d, n>>[2] \in since[<<d, n>>[1]]
      BY <2>2 DEF IInv, ReadsSeen
    <3> QED BY <3>1
  <2> QED BY <2>1, <2>2 DEF Reads
<1> QED BY <1>1, InitInv, Inductive, PTL DEF Spec

(* Cached rows are left on disk by a process that is killed or finds its   *)
(* address in use, and by no other, and a journal only by one that is      *)
(* stopped in the middle of a write.                                       *)
THEOREM CacheFileIsEphemeral == Spec => DataIsEphemeral
<1> DEFINE Rows == "rows" \in left' => "rows" \in left \/ faults' # faults
           Journals == "journal" \in left' => "journal" \in left \/ Writing
<1>1. IInv /\ [Next]_vars => [Rows /\ Journals]_vars
  <2> SUFFICES ASSUME IInv, Next PROVE Rows /\ Journals
    OBVIOUS
  <2>1. faults \in Nat /\ \A J \in Journal : J \subseteq {"journal"} /\ (J = {} \/ Writing)
    BY DeploymentAssumption DEF IInv, TypeOK, Journal
  <2>2. CASE UNCHANGED left \/ Start
    BY <2>2 DEF Start
  <2>3. CASE Leave /\ (cached = {} \/ faults' # faults)
    <3>1. PICK J \in Journal :
            left' = {"file"} \cup (IF cached = {} THEN {} ELSE {"rows"}) \cup J
      BY <2>3 DEF Leave
    <3> QED BY <2>1, <2>3, <3>1
  <2>4. CASE LeaveJournal
    BY <2>1, <2>4 DEF LeaveJournal
  <2>5. CASE \E c \in Conn : RecreateCache(c)
    BY <2>5 DEF RecreateCache
  <2>6. CASE DieEarly
    BY <2>6 DEF DieEarly
  <2>7. ASSUME NEW d \in Db, Ping(d) PROVE UNCHANGED left \/ (Leave /\ cached = {})
    BY <2>7 DEF Ping, IInv, CacheStartsEmpty
  <2>8. CASE ListenFails \/ CacheFails \/ Kill
    <3>1. faults' # faults /\ (UNCHANGED left \/ Leave \/ LeaveJournal)
      BY <2>1, <2>8 DEF ListenFails, CacheFails, Kill, Fault
    <3> QED BY <2>2, <2>3, <2>4, <3>1
  <2> QED
    BY <2>2, <2>3, <2>4, <2>5, <2>6, <2>7, <2>8
       DEF Next, Proceed, Stat, CreateCache, SetupCache, Serve, ExitProcess, AutoRestart,
       TimePasses, Receive, Handle, Query, QueryFails, Reply, Job, StartJob, FinishUpdate, Stop,
       RemoveCache, StartAgain, Update, CrashJob
<1> QED BY <1>1, InitInv, Inductive, PTL DEF Spec, DataIsEphemeral
=============================================================================
