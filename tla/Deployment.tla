------------------------------ MODULE Deployment ------------------------------
(***************************************************************************)
(* A host that runs labed (go/ckit/cmd/labed/main.go) under systemd on     *)
(* databases that the nightly job replaces: the directory of outputs, as   *)
(* far as Releases promises anything about it, the life of the process     *)
(* with its connections and its temporary cache file, and the job that     *)
(* updates and then restarts it (ansible/roles/labe).                      *)
(***************************************************************************)
EXTENDS Integers, Sequences

CONSTANTS Db,         \* the databases on labed's command line
          Version,
          Queries,    \* the databases that a request asks, one after the other
          Conn,       \* requests served at the same time
          Built, Absent, None,
          StartLimit, \* starts in a row before systemd gives up, 5 by default
          MaxFaults   \* bound on kills, crashed jobs, full disks and addresses in use

ASSUME DeploymentAssumption ==
  /\ Version \subseteq Nat
  /\ None \notin Version
  /\ Built # Absent
  /\ Queries \in Seq(Db)
  /\ StartLimit \in Nat \ {0}
  /\ MaxFaults \in Nat

VARIABLES stored, link, \* the directory of task outputs
          job,     \* the nightly job
          faults,
          proc,    \* what the process does
          pending, \* databases it has not looked for, or not pinged
          starts,  \* recent starts, as systemd counts them
          conns,   \* versions that open connections to a database read
          at,      \* the next query of a request, 0 if there is no request
          read,    \* what the request has read so far
          cached,  \* what the responses in the cache file were made from
          left,    \* what a process that has ended left of its cache in /tmp
          since    \* history: versions linked since the process was started

files == <<stored, link, since>>
process == <<proc, pending, starts>>
requests == <<at, read>>
vars == <<files, job, faults, process, conns, requests, cached, left>>

Output == INSTANCE Releases WITH Item <- Db, Content <- {Built}

Life == {"inactive", "failed", "stat", "created", "ping", "serving", "removed"}
Up == {"ping", "serving", "removed"} \* has a cache and perhaps connections

TypeOK ==
  /\ stored \in [Db -> [Version -> {Built, Absent}]]
  /\ link \in [Db -> Version \cup {None}]
  /\ since \in [Db -> SUBSET Version]
  /\ job \in {"idle", "update", "restart"}
  /\ faults \in 0 .. MaxFaults
  /\ proc \in Life
  /\ pending \subseteq Db
  /\ starts \in 0 .. StartLimit
  /\ conns \in [Db -> SUBSET Version]
  /\ at \in [Conn -> 0 .. Len(Queries) + 1]
  /\ read \in [Conn -> SUBSET (Db \X Version)]
  /\ cached \subseteq Db \X Version
  /\ left \subseteq {"file", "rows", "journal"}

Linked(d) == {link[d]} \ {None}
NoConns == [d \in Db |-> {}]

Init ==
  /\ Output!ReleasesInit
  /\ since = [d \in Db |-> {}]
  /\ job = "idle"
  /\ faults = 0
  /\ proc = "inactive" /\ pending = {} /\ starts = 0
  /\ conns = NoConns
  /\ at = [c \in Conn |-> 0]
  /\ read = [c \in Conn |-> {}]
  /\ cached = {}
  /\ left = {}

Fault == faults < MaxFaults /\ faults' = faults + 1

-----------------------------------------------------------------------------
(* The process starts: it looks for each file, through the link,           *)
Start ==
  /\ proc' = "stat"
  /\ pending' = Db
  /\ left' = {}
  /\ since' = [d \in Db |-> Linked(d)]

Stat(d) ==
  /\ proc = "stat"
  /\ d \in pending
  /\ \/ link[d] # None /\ pending' = pending \ {d} /\ UNCHANGED proc
     \/ link[d] = None /\ pending' = {} /\ proc' = "failed"
  /\ UNCHANGED <<files, job, faults, starts, conns, requests, cached, left>>

(* Mutant: the cache is a file of a fixed name, found again. *)
ReopenCache ==
  /\ proc = "stat"
  /\ pending = {}
  /\ proc' = "created"
  /\ UNCHANGED <<files, job, faults, pending, starts, conns, requests, cached, left>>

(* makes a new temporary file,                                             *)
CreateCache ==
  /\ proc = "stat"
  /\ pending = {}
  /\ proc' = "created"
  /\ cached' = {}
  /\ UNCHANGED <<files, job, faults, pending, starts, conns, requests, left>>

(* installs the handler that removes the file and puts a cache into it,    *)
SetupCache ==
  /\ proc = "created"
  /\ proc' = "ping"
  /\ pending' = Db
  /\ UNCHANGED <<files, job, faults, starts, conns, requests, cached, left>>

(* Mutant: without mode=ro, SQLite makes a file that is missing. *)
CreateIfMissing(d) == {link[d]}

(* What a connection opened now would read.                                *)
Openable(d) == Linked(d)

(* What a process leaves that does not remove its cache file: the file,    *)
(* with its rows, and the rollback journal of a write that is interrupted. *)
Writing == \E c \in Conn : at[c] = Len(Queries) + 1
Journal == IF Writing THEN {{}, {"journal"}} ELSE {{}}
Leave ==
  \E J \in Journal : left' = {"file"} \cup (IF cached = {} THEN {} ELSE {"rows"}) \cup J

(* There is no room for a temporary file, or none for the tables in it.    *)
CacheFails ==
  /\ \/ proc = "stat" /\ pending = {} /\ UNCHANGED left
     \/ proc = "created" /\ Leave
  /\ Fault
  /\ proc' = "failed"
  /\ UNCHANGED <<files, job, starts, pending, conns, requests, cached>>

(* and pings, which opens the first connection.  log.Fatal runs no         *)
(* deferred function, so the file stays when there is nothing to open.     *)
Ping(d) ==
  /\ proc = "ping"
  /\ d \in pending
  /\ \/ \E n \in Openable(d) :
          /\ conns' = [conns EXCEPT ![d] = {n}]
          /\ pending' = pending \ {d}
          /\ UNCHANGED <<proc, left>>
     \/ /\ Openable(d) = {}
        /\ proc' = "failed"
        /\ pending' = {}
        /\ conns' = NoConns
        /\ Leave
  /\ UNCHANGED <<files, job, faults, starts, requests, cached>>

Serve ==
  /\ proc = "ping"
  /\ pending = {}
  /\ proc' = "serving"
  /\ UNCHANGED <<files, job, faults, pending, starts, conns, requests, cached, left>>

(* What is gone with a process, however it ends.                           *)
Close ==
  /\ pending' = {}
  /\ conns' = NoConns
  /\ at' = [c \in Conn |-> 0]
  /\ read' = [c \in Conn |-> {}]

ListenFails ==
  /\ proc = "ping"
  /\ pending = {}
  /\ Fault
  /\ proc' = "failed"
  /\ Close
  /\ Leave
  /\ UNCHANGED <<files, job, starts, cached>>

-----------------------------------------------------------------------------
(* Requests.  The pool of a database hands out a connection that is open   *)
(* or, when those are in use, opens one, through the link as it is then;   *)
(* an open connection is not bothered by the removal of link or file.      *)
Running == proc \in {"serving", "removed"}

Receive(c) ==
  /\ Running
  /\ at[c] = 0
  /\ at' = [at EXCEPT ![c] = 1]
  /\ UNCHANGED <<files, job, faults, process, conns, read, cached, left>>

Query(c) ==
  /\ Running
  /\ at[c] \in DOMAIN Queries
  /\ LET d == Queries[at[c]] IN
       \E n \in conns[d] \cup Openable(d) :
         /\ conns' = [conns EXCEPT ![d] = @ \cup {n}]
         /\ read' = [read EXCEPT ![c] = @ \cup {<<d, n>>}]
  /\ at' = [at EXCEPT ![c] = @ + 1]
  /\ UNCHANGED <<files, job, faults, process, cached, left>>

(* A connection was needed while the link was missing: the request fails.  *)
QueryFails(c) ==
  /\ Running
  /\ at[c] \in DOMAIN Queries
  /\ Openable(Queries[at[c]]) = {}
  /\ at' = [at EXCEPT ![c] = 0]
  /\ read' = [read EXCEPT ![c] = {}]
  /\ UNCHANGED <<files, job, faults, process, conns, cached, left>>

(* A reply, and perhaps a row in the cache.                                *)
Reply(c) ==
  /\ Running
  /\ at[c] = Len(Queries) + 1
  /\ cached' \in {cached, cached \cup read[c]}
  /\ at' = [at EXCEPT ![c] = 0]
  /\ read' = [read EXCEPT ![c] = {}]
  /\ UNCHANGED <<files, job, faults, process, conns, left>>

-----------------------------------------------------------------------------
(* The end of the process.  Mutant: SIGTERM is not handled. *)
DieOfSignal ==
  /\ proc \in {"ping", "serving"}
  /\ proc' = "inactive"
  /\ Close
  /\ Leave
  /\ UNCHANGED <<files, job, faults, starts, cached>>

(* The goroutine that waits for SIGTERM removes the file, then exits.      *)
(* Requests are served, and arrive, until it does.                         *)
RemoveCache ==
  /\ proc \in {"ping", "serving"}
  /\ proc' = "removed"
  /\ UNCHANGED <<files, job, faults, pending, starts, conns, requests, cached, left>>

(* In between, a request that opens the cache again makes an empty file.   *)
RecreateCache(c) ==
  /\ proc = "removed"
  /\ at[c] # 0
  /\ left' = left \cup {"file"}
  /\ UNCHANGED <<files, job, faults, process, conns, requests, cached>>

(* A write to the file, which has lost its name, still has a journal.      *)
LeaveJournal == \E J \in Journal : left' = left \cup J

ExitProcess ==
  /\ proc = "removed"
  /\ proc' = "inactive"
  /\ Close
  /\ LeaveJournal
  /\ UNCHANGED <<files, job, faults, starts, cached>>

(* Without a handler yet, SIGTERM ends the process.                        *)
DieEarly ==
  /\ proc \in {"stat", "created"}
  /\ proc' = "inactive"
  /\ pending' = {}
  /\ left' = IF proc = "created" THEN {"file"} ELSE left
  /\ UNCHANGED <<files, job, faults, starts, conns, requests, cached>>

Kill ==
  /\ proc \in Up
  /\ Fault
  /\ proc' = "failed"
  /\ Close
  /\ IF proc = "removed" THEN LeaveJournal ELSE Leave
  /\ UNCHANGED <<files, job, starts, cached>>

-----------------------------------------------------------------------------
(* systemd: Restart=on-failure, unless there were too many starts lately.  *)
AutoRestart ==
  /\ proc = "failed"
  /\ \/ starts < StartLimit /\ Start /\ starts' = starts + 1
     \/ starts = StartLimit /\ proc' = "inactive" /\ UNCHANGED <<pending, starts, left, since>>
  /\ UNCHANGED <<stored, link, job, faults, conns, requests, cached>>

TimePasses ==
  /\ starts > 0
  /\ proc = "serving"
  /\ starts' = 0
  /\ UNCHANGED <<files, job, faults, proc, pending, conns, requests, cached, left>>

-----------------------------------------------------------------------------
(* The nightly job: labed has started, or given up, long before the next.  *)
StartJob ==
  /\ job = "idle"
  /\ proc \in {"inactive", "serving"}
  /\ job' = "update"
  /\ UNCHANGED <<files, faults, process, conns, requests, cached, left>>

Update ==
  /\ job = "update"
  /\ Output!ReleasesNext
  /\ since' = [d \in Db |-> since[d] \cup ({link'[d]} \ {None})]
  /\ UNCHANGED <<job, faults, process, conns, requests, cached, left>>

(* Mutant: labe.pyz fails if a task has failed, and && asks for that. *)
FinishIfAllIsWell ==
  /\ job = "update"
  /\ job' = IF \E d \in Db : link[d] = None THEN "idle" ELSE "restart"
  /\ UNCHANGED <<files, faults, process, conns, requests, cached, left>>

(* Mutant: "systemctl try-restart". *)
FinishIfRunning ==
  /\ job = "update"
  /\ job' = IF proc = "inactive" THEN "idle" ELSE "restart"
  /\ UNCHANGED <<files, faults, process, conns, requests, cached, left>>

(* Done with whatever could be done: the result of luigi.run is dropped,   *)
(* so the shell always goes on after "&&".                                 *)
FinishUpdate ==
  /\ job = "update"
  /\ job' = "restart"
  /\ UNCHANGED <<files, faults, process, conns, requests, cached, left>>

(* "systemctl restart labed": stop it if it runs, then start it.  That is  *)
(* systemd's from here on, even if the job is killed.                      *)
Stop == job = "restart" /\ (DieEarly \/ RemoveCache)

StartAgain ==
  /\ job = "restart"
  /\ proc \in {"inactive", "failed"}
  /\ job' = "idle"
  /\ Start
  /\ starts' = 1
  /\ UNCHANGED <<stored, link, faults, conns, requests, cached>>

CrashJob ==
  /\ job = "update"
  /\ Fault
  /\ job' = "idle"
  /\ UNCHANGED <<files, process, conns, requests, cached, left>>

-----------------------------------------------------------------------------
Proceed == (\E d \in Db : Stat(d) \/ Ping(d)) \/ CreateCache \/ SetupCache \/ Serve
           \/ ExitProcess
Handle(c) == Query(c) \/ QueryFails(c) \/ Reply(c)
Job == StartJob \/ FinishUpdate \/ Stop \/ StartAgain

Next ==
  \/ Proceed \/ CacheFails \/ ListenFails \/ Kill \/ AutoRestart \/ TimePasses
  \/ \E c \in Conn : Receive(c) \/ Handle(c) \/ RecreateCache(c)
  \/ Job \/ Update \/ CrashJob

Spec == Init /\ [][Next]_vars

(* The process, systemd and cron do not stop; an update ends in some way.  *)
FairSpec == Spec /\ WF_vars(Proceed) /\ WF_vars(AutoRestart) /\ WF_vars(Job)

-----------------------------------------------------------------------------
(* What labed may answer from: open connections, requests under way and    *)
(* cached responses.                                                       *)
Reads(d) ==
  conns[d] \cup {n \in Version : <<d, n>> \in cached \cup UNION {read[c] : c \in Conn}}

(* No answer comes from before the restart: all that labed answers from    *)
(* was linked at some time since it was started, so an update that is      *)
(* finished before is never undone by what is left of an earlier process,  *)
(* although links move while it starts and while it serves (main.go:       *)
(* 166-205, "the cache file does not survive the process").                *)
NoAnswerFromBefore == proc \in Up => \A d \in Db : Reads(d) \subseteq since[d]

(* An output that stays the current one is, some restart later, the only   *)
(* one that labed answers from, whether the update that made it went well  *)
(* or failed in part (main.yml:142-145, cli.py:287-291).                   *)
ServedIsCurrent ==
  \A d \in Db, n \in Version :
    <>[](link[d] = n) => <>[](proc \in Up => Reads(d) \subseteq {n})

(* As long as the databases are there in the end, labed serves again and   *)
(* again, also after starts on missing links have made systemd give up     *)
(* (labed.service.j2:21, main.go:137-156 and 206-208).                     *)
Available == (\A d \in Db : <>[](link[d] # None)) => []<>(proc = "serving")

(* Only a fault leaves cached rows behind; other ways out leave at most a  *)
(* file without rows, and the journal of a write that they interrupt       *)
(* (main.go:166-195).                                                      *)
DataIsEphemeral ==
  [][/\ "rows" \in left' => "rows" \in left \/ faults' # faults
     /\ "journal" \in left' => "journal" \in left \/ Writing]_vars
=============================================================================
