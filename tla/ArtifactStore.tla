---------------------------- MODULE ArtifactStore ----------------------------
(***************************************************************************)
(* The directory of task outputs: luigi tasks that write a versioned       *)
(* output and then turn the link "current" to it (python/labe/base.py,     *)
(* tasks.py, stats.py), "labe.pyz --list-deletable" (cli.py), and the cron *)
(* jobs that call them (ansible/roles/labe/tasks/main.yml).  Jobs are      *)
(* processes of their own and may crash anywhere.  Scheduling is luigi's   *)
(* and modelled from how the tasks rely on it.                             *)
(***************************************************************************)
EXTENDS Integers

CONSTANTS Task, Daily,  \* all tasks; the ones versioned by date
          Requires,     \* the inputs of a task
          Linked, Keep, \* tasks with a link; with a .labekeep in their directory
          Lenient,      \* tasks that take an input that is missing for an empty one
          Job, Cleaner, \* cron jobs; the ones that clean up first and restart labed
          Roots,        \* the tasks a job asks for
          None,
          MaxDay, MaxDump, MaxFaults \* bounds: days, dumps, crashes and failures

ASSUME StoreAssumption ==
  /\ Daily \subseteq Task /\ Linked \subseteq Task /\ Keep \subseteq Task
  /\ Lenient \subseteq Task
  /\ Requires \in [Task -> SUBSET Task]
  /\ Cleaner \subseteq Job
  /\ Roots \in [Job -> SUBSET Task]
  /\ MaxDay \in Nat /\ MaxDump \in Nat /\ MaxFaults \in Nat
  /\ None \notin Int

VARIABLES day, dump, \* today; the dump that opencitations.net links to
          out,       \* out[t][n]: what the output of t named n was made of, {} if there is none
          link,      \* where "current" of a task points, perhaps to nothing
          faults,
          phase,     \* of a job
          today,     \* the default of its date parameters
          todo,      \* directories --list-deletable has not read
          deletable, \* outputs listed and not yet removed
          name,      \* the version of a task in a job, None before it is looked up
          state,     \* the status of a task in a job
          made       \* what a running task read

world == <<day, dump>>
files == <<out, link>>
local == <<phase, today, todo, deletable, name, state, made>>
vars == <<world, files, faults, local>>

Version == 0 .. (IF MaxDay > MaxDump THEN MaxDay ELSE MaxDump)
Content == SUBSET (Task \X Version)
Output == Task \X Version

Linking == {"moved", "remove", "symlink"}
Working == {"started", "running"} \cup Linking
Status == {"none", "wanted", "found", "pending", "done", "failed", "refused", "unknown"}
            \cup Working

TypeOK ==
  /\ day \in 0 .. MaxDay /\ dump \in 0 .. MaxDump /\ faults \in 0 .. MaxFaults
  /\ out \in [Task -> [Version -> Content]]
  /\ link \in [Task -> Version \cup {None}]
  /\ phase \in [Job -> {"idle", "list", "rm", "update", "restart"}]
  /\ today \in [Job -> 0 .. MaxDay]
  /\ todo \in [Job -> SUBSET Task]
  /\ deletable \in [Job -> SUBSET Output]
  /\ name \in [Job -> [Task -> Version \cup {None}]]
  /\ state \in [Job -> [Task -> Status]]
  /\ made \in [Job -> [Task -> Content]]

Exists(t, n) == n # None /\ out[t][n] # {}

(* The version a task has for whoever asks now.                            *)
VersionNow(t) == IF t \in Daily THEN day ELSE dump

Init ==
  /\ day = 0 /\ dump = 0 /\ faults = 0
  /\ out = [t \in Task |-> [n \in Version |-> {}]]
  /\ link = [t \in Task |-> None]
  /\ phase = [j \in Job |-> "idle"]
  /\ today = [j \in Job |-> 0]
  /\ todo = [j \in Job |-> {}]
  /\ deletable = [j \in Job |-> {}]
  /\ name = [j \in Job |-> [t \in Task |-> None]]
  /\ state = [j \in Job |-> [t \in Task |-> "none"]]
  /\ made = [j \in Job |-> [t \in Task |-> {}]]

-----------------------------------------------------------------------------
NewDay == day < MaxDay /\ day' = day + 1 /\ UNCHANGED <<dump, files, faults, local>>

(* A new dump lives under a new URL.                                       *)
NewDump == dump < MaxDump /\ dump' = dump + 1 /\ UNCHANGED <<day, files, faults, local>>

Fault == faults < MaxFaults /\ faults' = faults + 1

(* What becomes of a process that ends, in whatever way.                   *)
Exit(j) ==
  /\ phase' = [phase EXCEPT ![j] = "idle"]
  /\ today' = [today EXCEPT ![j] = 0]
  /\ todo' = [todo EXCEPT ![j] = {}]
  /\ deletable' = [deletable EXCEPT ![j] = {}]
  /\ name' = [name EXCEPT ![j] = [t \in Task |-> None]]
  /\ state' = [state EXCEPT ![j] = [t \in Task |-> "none"]]
  /\ made' = [made EXCEPT ![j] = [t \in Task |-> {}]]

Crash(j) == phase[j] # "idle" /\ Fault /\ Exit(j) /\ UNCHANGED <<world, files>>

(* An assumption on the environment: a job is over when cron starts it     *)
(* again, once a day.  Cron does not see to it, and of what a job does     *)
(* only "labe.pyz -r" takes a lock, luigi's, not the cleanup.  A nightly   *)
(* job that ran into the next one would be a second element of Cleaner.    *)
PreviousEnded(j) == phase[j] = "idle"

(* "rm -f $(labe.pyz --list-deletable)", then "labe.pyz -r CombinedUpdate".*)
StartCleanup(j) ==
  /\ j \in Cleaner
  /\ PreviousEnded(j)
  /\ phase' = [phase EXCEPT ![j] = "list"]
  /\ todo' = [todo EXCEPT ![j] = Task]
  /\ UNCHANGED <<world, files, faults, today, deletable, name, state, made>>

(* Mutants: links are not looked at; directories without one are passed over. *)
AnyOutput(t) == {n \in Version : t \notin Keep /\ Exists(t, n)}
OutdatedIfLinked(t) == {n \in Version : t \notin Keep /\ Exists(t, n) /\ link[t] \notin {n, None}}

(* os.walk reads the directory of a task: outputs that are not linked.     *)
Outdated(t) == {n \in Version : t \notin Keep /\ Exists(t, n) /\ link[t] # n}

ListDirectory(j, t) ==
  /\ phase[j] = "list"
  /\ t \in todo[j]
  /\ todo' = [todo EXCEPT ![j] = @ \ {t}]
  /\ deletable' = [deletable EXCEPT ![j] = @ \cup ({t} \X Outdated(t))]
  /\ phase' = IF todo[j] = {t} THEN [phase EXCEPT ![j] = "rm"] ELSE phase
  /\ UNCHANGED <<world, files, faults, today, name, state, made>>

Remove(j, t, n) ==
  /\ phase[j] = "rm"
  /\ <<t, n>> \in deletable[j]
  /\ out' = [out EXCEPT ![t][n] = {}]
  /\ deletable' = [deletable EXCEPT ![j] = @ \ {<<t, n>>}]
  /\ UNCHANGED <<world, link, faults, phase, today, todo, name, state, made>>

(* Mutant: a clock that is in another time zone. *)
Tomorrow == day + 1

(* The defaults of date parameters are evaluated once, at import.          *)
Today == day

StartUpdate(j) ==
  /\ \/ j \in Cleaner /\ phase[j] = "rm" /\ deletable[j] = {}
     \/ j \notin Cleaner /\ PreviousEnded(j)
  /\ phase' = [phase EXCEPT ![j] = "update"]
  /\ today' = [today EXCEPT ![j] = Today]
  /\ state' = [state EXCEPT ![j] = [t \in Task |-> IF t \in Roots[j] THEN "wanted" ELSE "none"]]
  /\ UNCHANGED <<world, files, faults, todo, deletable, name, made>>

-----------------------------------------------------------------------------
(* Scheduling: luigi looks up what a task wants, asks each of those        *)
(* whether it is complete, and goes on with one that is not; in which      *)
(* order is left open.                                                     *)
Become(j, t, s) == state' = [state EXCEPT ![j][t] = s]
AllOf(j, S) == \A t \in Task : state[j][t] \in S

(* open_citations_url is looked up once per task, under lru_cache.         *)
LookUp(j, t) == IF t \in Daily THEN today[j] ELSE dump

CheckComplete(j, t) ==
  /\ phase[j] = "update"
  /\ state[j][t] = "wanted"
  /\ name' = [name EXCEPT ![j][t] = LookUp(j, t)]
  /\ Become(j, t, IF Exists(t, LookUp(j, t)) THEN "done" ELSE "found")
  /\ UNCHANGED <<world, files, faults, phase, today, todo, deletable, made>>

(* Mutant: if the page cannot be read, an old release will do. *)
FallBackToOldDump(j, t) ==
  /\ phase[j] = "update"
  /\ state[j][t] = "wanted"
  /\ t \notin Daily
  /\ Fault
  /\ name' = [name EXCEPT ![j][t] = 0]
  /\ Become(j, t, "found")
  /\ UNCHANGED <<world, files, phase, today, todo, deletable, made>>

(* opencitations.net does not answer, or with an unknown page.             *)
LookupFails(j, t) ==
  /\ phase[j] = "update"
  /\ state[j][t] = "wanted"
  /\ t \notin Daily
  /\ Fault
  /\ Become(j, t, "unknown")
  /\ UNCHANGED <<world, files, phase, today, todo, deletable, name, made>>

Expand(j, t) ==
  /\ phase[j] = "update"
  /\ AllOf(j, Status \ {"wanted"})
  /\ state[j][t] = "found"
  /\ state' = [state EXCEPT ![j] = [u \in Task |->
                 IF u = t THEN "pending"
                 ELSE IF u \in Requires[t] /\ @[u] = "none" THEN "wanted" ELSE @[u]]]
  /\ UNCHANGED <<world, files, faults, phase, today, todo, deletable, name, made>>

-----------------------------------------------------------------------------
(* Working on a task whose inputs are done.  Up to four tasks of a job run *)
(* at the same time; a bound on their number is left out.                  *)
Missing(j, t) == {d \in Requires[t] : ~Exists(d, name[j][d])}
Ready(j, t) == state[j][t] = "pending" /\ \A d \in Requires[t] : state[j][d] = "done"

(* luigi insists on inputs that are there ("Unfulfilled dependencies").    *)
BeginTask(j, t) ==
  /\ phase[j] = "update"
  /\ AllOf(j, Status \ {"wanted", "found"})
  /\ Ready(j, t)
  /\ Become(j, t, IF Missing(j, t) = {} THEN "started" ELSE "failed")
  /\ UNCHANGED <<world, files, faults, phase, today, todo, deletable, name, made>>

(* What there is to read: the data of all inputs, or a source outside.  An *)
(* input that is missing is noted under the name of the task itself.       *)
Source(j, t) ==
  (UNION {out[d][name[j][d]] : d \in Requires[t] \ Missing(j, t)})
    \cup (IF Requires[t] = {} \/ Missing(j, t) # {} THEN {<<t, name[j][t]>>} ELSE {})

(* Mutant: without pipefail, the last command of a pipe decides. *)
ReadWhatIsThere(j, t) ==
  /\ state[j][t] = "started"
  /\ Become(j, t, "running")
  /\ made' = [made EXCEPT ![j][t] = Source(j, t)]
  /\ UNCHANGED <<world, files, faults, phase, today, todo, deletable, name>>

(* The shell opens the inputs, and can read them from then on even if they *)
(* are removed.  If it cannot, the pipe fails; but not if the input comes  *)
(* from a process substitution, whose exit status nobody asks for.         *)
ReadInputs(j, t) ==
  /\ state[j][t] = "started"
  /\ IF Missing(j, t) = {} \/ t \in Lenient
       THEN Become(j, t, "running") /\ made' = [made EXCEPT ![j][t] = Source(j, t)]
       ELSE Become(j, t, "failed") /\ UNCHANGED made
  /\ UNCHANGED <<world, files, faults, phase, today, todo, deletable, name>>

(* shellout or ensure_minimum_file_size raises.  Inputs are opened one     *)
(* after the other, so one that has been removed may make it fail.         *)
TaskFails(j, t) ==
  /\ state[j][t] = "running"
  /\ Fault \/ (t \notin Lenient /\ Missing(j, t) # {} /\ UNCHANGED faults)
  /\ Become(j, t, "failed")
  /\ made' = [made EXCEPT ![j][t] = {}]
  /\ UNCHANGED <<world, files, phase, today, todo, deletable, name>>

(* Mutant: the URL is looked up again whenever the path is needed. *)
PathNow(j, t) == VersionNow(t)

(* self.output().path in a run of a job: lookups are cached.               *)
Path(j, t) == name[j][t]

(* LocalTarget.move renames the temporary file, then comes on_success.     *)
MoveOutput(j, t) ==
  /\ state[j][t] = "running"
  /\ out' = [out EXCEPT ![t][Path(j, t)] = made[j][t]]
  /\ made' = [made EXCEPT ![j][t] = {}]
  /\ Become(j, t, IF t \in Linked THEN "moved" ELSE "done")
  /\ UNCHANGED <<world, link, faults, phase, today, todo, deletable, name>>

(* Mutant: a link that is there is left alone. *)
KeepLink(j, t) ==
  /\ state[j][t] = "moved"
  /\ Become(j, t, IF Exists(t, link[t]) THEN "done" ELSE "symlink")
  /\ UNCHANGED <<world, files, faults, phase, today, todo, deletable, name, made>>

(* create_symlink: os.path.exists, which follows the link; os.remove,      *)
(* which raises if there is no file; os.symlink, which raises if there is. *)
FindLink(j, t) ==
  /\ state[j][t] = "moved"
  /\ Become(j, t, IF Exists(t, link[t]) THEN "remove" ELSE "symlink")
  /\ UNCHANGED <<world, files, faults, phase, today, todo, deletable, name, made>>

RemoveLink(j, t) ==
  /\ state[j][t] = "remove"
  /\ link' = [link EXCEPT ![t] = None]
  /\ Become(j, t, IF link[t] = None THEN "refused" ELSE "symlink")
  /\ UNCHANGED <<world, out, faults, phase, today, todo, deletable, name, made>>

MakeLink(j, t) ==
  /\ state[j][t] = "symlink"
  /\ IF link[t] = None
       THEN link' = [link EXCEPT ![t] = Path(j, t)] /\ Become(j, t, "done")
       ELSE Become(j, t, "refused") /\ UNCHANGED link
  /\ UNCHANGED <<world, out, faults, phase, today, todo, deletable, name, made>>

(* luigi tries a failed task again if others keep it busy long enough.     *)
Retry(j, t) ==
  /\ state[j][t] \in {"failed", "refused"}
  /\ \E u \in Task : state[j][u] \in Working
  /\ Become(j, t, "pending")
  /\ UNCHANGED <<world, files, faults, phase, today, todo, deletable, name, made>>

(* Nothing is left that could run.  The result of luigi.run is ignored, so *)
(* labe.pyz exits with 0 and the shell goes on, whatever has failed.       *)
Settled == {"none", "done", "failed", "refused", "unknown"}
Finished(j) ==
  \A t \in Task : state[j][t] \in Settled \/ (state[j][t] = "pending" /\ ~Ready(j, t))

FinishUpdate(j) ==
  /\ phase[j] = "update"
  /\ Finished(j)
  /\ IF j \in Cleaner
       THEN phase' = [phase EXCEPT ![j] = "restart"]
              /\ UNCHANGED <<today, todo, deletable, name, state, made>>
       ELSE Exit(j)
  /\ UNCHANGED <<world, files, faults>>

(* "sudo systemctl restart labed", the end of the job.                     *)
Restart(j) == phase[j] = "restart" /\ Exit(j) /\ UNCHANGED <<world, files, faults>>

-----------------------------------------------------------------------------
Clean(j) == \/ StartCleanup(j)
            \/ \E t \in Task : ListDirectory(j, t)
            \/ \E t \in Task, n \in Version : Remove(j, t, n)

Schedule(j) == \E t \in Task : CheckComplete(j, t) \/ Expand(j, t)

Work(j) == \E t \in Task : \/ BeginTask(j, t) \/ ReadInputs(j, t) \/ MoveOutput(j, t)
                           \/ FindLink(j, t) \/ RemoveLink(j, t) \/ MakeLink(j, t)

(* What cron and a job do on their own account.                            *)
Proceed(j) == \/ Clean(j) \/ StartUpdate(j) \/ Schedule(j) \/ Work(j)
              \/ FinishUpdate(j) \/ Restart(j)

GoWrong(j) == \/ Crash(j)
              \/ \E t \in Task : LookupFails(j, t) \/ TaskFails(j, t) \/ Retry(j, t)

Next == NewDay \/ NewDump \/ \E j \in Job : Proceed(j) \/ GoWrong(j)

Spec == Init /\ [][Next]_vars

(* Cron starts every job again and again, and jobs get on with their work. *)
FairSpec == Spec /\ \A j \in Job : WF_vars(Proceed(j))

-----------------------------------------------------------------------------
(* What a job may touch: the tasks that it asks for with all they require, *)
(* and any output if it cleans up.  Mine(j) is what no other job touches;  *)
(* with two jobs that clean up, which overlapping nights are, it is empty. *)
Closed(S) == \A u \in S : Requires[u] \subseteq S
Reach(t) == {s \in Task : \A S \in SUBSET Task : t \in S /\ Closed(S) => s \in S}
Touches(j) == IF j \in Cleaner THEN Task ELSE UNION {Reach(t) : t \in Roots[j]}
Mine(j) == {t \in Touches(j) : \A k \in Job : t \in Touches(k) => k = j}
Owned == UNION {Mine(j) : j \in Job}

(* A link never points to an output that is not there (cli.py:25-28: links *)
(* tell what is current and what may be deleted), although outputs, links  *)
(* and listings of deletable outputs change one after the other.           *)
CurrentExists == \A t \in Owned : link[t] # None => Exists(t, link[t])

(* Cleaning up takes no output that is linked at that moment, and none     *)
(* from a directory with a .labekeep (cli.py:229-241).                     *)
RemovesOnlyOutdated ==
  [][\A t \in Owned, n \in Version :
       out[t][n] # {} /\ out'[t][n] = {} => t \notin Keep /\ link[t] # n]_vars

(* Whoever opens an output through its link gets a complete one that stays *)
(* as it is, and never an older one than before as long as the task has    *)
(* outputs: the directory keeps the promise of Releases, although outputs  *)
(* are moved, links removed and made, and outdated outputs removed in      *)
(* steps that may crash and fail, while other jobs do the same with what   *)
(* is theirs (base.py:117-127, cli.py:225-241).                            *)
Promise == INSTANCE Releases WITH
  Item <- Owned, Content <- Content \ {{}}, Absent <- {},
  stored <- [t \in Owned |-> out[t]], link <- [t \in Owned |-> link[t]]
KeepsPromise == Promise!ReleasesSpec

(* A task that a job counts as done, whether built now or found complete,  *)
(* is the current one (cli.py:25-26), if the job cleans up first; the next *)
(* cleanup would otherwise remove what this one relies on.                 *)
Done(j, t) == phase[j] # "idle" /\ state[j][t] = "done" /\ t \in Linked
DoneIsCurrent == \A j \in Cleaner : \A t \in Mine(j) : Done(j, t) => link[t] = name[j][t]

(* An output is never older than its name says: data of a new dump is what *)
(* a file with the hash of its URL holds (tasks.py:75-79), so what is      *)
(* complete need not be built again.                                       *)
NameTellsContent ==
  \A t \in Task, n \in Version : \A s \in out[t][n] :
    (s[1] \in Daily <=> t \in Daily) => s[2] >= n

(* The tasks without inputs that a task is built from in the end.          *)
Sources[t \in Task] == IF Requires[t] = {} THEN {t} ELSE UNION {Sources[d] : d \in Requires[t]}

(* An output is built from all of its inputs, or not at all, also while    *)
(* another job removes some of them: "a failed pipe will cause an error"   *)
(* (base.py:216-220, 246-254, tasks.py:415-446).                           *)
BuiltFromAll == \A t \in Task, n \in Version :
                  out[t][n] # {} => {s[1] : s \in out[t][n]} = Sources[t]

(* create_symlink "overwrites existing links" (base.py:118-121): it goes   *)
(* on to os.symlink only if there is no link, or removes it first.         *)
OverwritesLinks ==
  [][\A j \in Job, t \in Task :
       state[j][t] = "moved" /\ state'[j][t] = "symlink" => link[t] = None]_vars

(* Whatever goes wrong, as long as it stops to, the databases the jobs ask *)
(* for end up current and stay so: after any crash the next night deletes  *)
(* and rebuilds what has no link (main.yml:136-146).                       *)
UpToDate == \A j \in Job : \A t \in Roots[j] \cap Linked :
              link[t] = VersionNow(t) /\ Exists(t, link[t])
Recovers == <>[]UpToDate
=============================================================================
