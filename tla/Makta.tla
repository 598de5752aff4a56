--------------------------------- MODULE Makta ---------------------------------
(***************************************************************************)
(* makta (go/ckit/cmd/makta/main.go) at the end of a shell pipe: it reads  *)
(* lines, hands them over in batches to an sqlite3 process of its own      *)
(* (RunImport of go/ckit/tabutils/tabutils.go) and adds indices.  makta,   *)
(* the goroutine that copies a batch, sqlite3 and what is upstream in the  *)
(* pipe run concurrently; a pipe has no record of why it was closed.       *)
(***************************************************************************)
EXTENDS Integers, Bags

CONSTANTS Line,       \* two columns, ended by a newline
          BufferSize, \* flag -B, in lines
          PipeSize,   \* what a pipe to sqlite3 holds, in lines
          Index,      \* the indices of flag -I
          MaxFaults   \* bound on failing processes

ASSUME MaktaAssumption ==
  /\ BufferSize \in Nat \ {0}
  /\ PipeSize \in Nat \ {0}
  /\ MaxFaults \in Nat

VARIABLES upstream, \* the other processes of the pipe
          stdin,    \* lines they have still to write
          main,     \* function main of makta
          final,    \* is this the import after the loop?
          buf,      \* the batch
          copier,   \* the goroutine of RunImport
          pipe,     \* what it has written and sqlite3 has not read
          sqlite,   \* the sqlite3 process of RunImport
          table,    \* is there a table in the database file?
          rows,     \* the rows of the table
          indexed,  \* its indices
          faults

feed == <<upstream, stdin>>
import == <<copier, pipe, sqlite>>
database == <<table, rows, indexed>>
maktaVars == <<feed, main, final, buf, import, database, faults>>

One(l) == SetToBag({l})
LineBag(b) == IsABag(b) /\ BagToSet(b) \subseteq Line

MaktaTypeOK ==
  /\ upstream \in {"running", "done", "failed"}
  /\ LineBag(stdin) /\ LineBag(buf) /\ LineBag(pipe) /\ LineBag(rows)
  /\ main \in {"start", "read", "import", "index", "done", "fatal"}
  /\ final \in BOOLEAN
  /\ copier \in {"none", "copying", "done", "failed"}
  /\ sqlite \in {"none", "running", "done", "failed"}
  /\ table \in BOOLEAN
  /\ indexed \subseteq Index
  /\ faults \in 0 .. MaxFaults

Fault == faults < MaxFaults /\ faults' = faults + 1

(* A new pipe over lines, into an empty file that mkstemp has made.        *)
Pipeline(lines) ==
  /\ upstream' = "running" /\ stdin' = lines
  /\ main' = "start" /\ final' = FALSE /\ buf' = EmptyBag
  /\ copier' = "none" /\ pipe' = EmptyBag /\ sqlite' = "none"
  /\ table' = FALSE /\ rows' = EmptyBag /\ indexed' = {}

MaktaInit ==
  /\ upstream = "done" /\ stdin = EmptyBag
  /\ main = "done" /\ final = FALSE /\ buf = EmptyBag
  /\ copier = "none" /\ pipe = EmptyBag /\ sqlite = "none"
  /\ table = FALSE /\ rows = EmptyBag /\ indexed = {}
  /\ faults = 0

-----------------------------------------------------------------------------
(* Upstream: it writes line after line and ends.  It fails on its own, or  *)
(* of SIGPIPE if makta has ended before.                                   *)
UpstreamEnds ==
  /\ upstream = "running"
  /\ stdin = EmptyBag
  /\ upstream' = "done"
  /\ UNCHANGED <<stdin, main, final, buf, import, database, faults>>

UpstreamFails ==
  /\ upstream = "running"
  /\ Fault \/ (main = "fatal" /\ UNCHANGED faults)
  /\ upstream' = "failed"
  /\ stdin' = EmptyBag
  /\ UNCHANGED <<main, final, buf, import, database>>

-----------------------------------------------------------------------------
(* main: flag -init makes the table, whatever file is there.               *)
InitDatabase ==
  /\ main = "start"
  /\ main' = "read"
  /\ table' = TRUE
  /\ UNCHANGED <<feed, final, buf, import, rows, indexed, faults>>

(* RunScript returns an error.                                             *)
ScriptFails ==
  /\ main \in {"start", "index"}
  /\ Fault
  /\ main' = "fatal"
  /\ UNCHANGED <<feed, final, buf, import, database>>

ReadLine(l) ==
  /\ main = "read"
  /\ BagIn(l, stdin)
  /\ stdin' = stdin (-) One(l)
  /\ buf' = buf (+) One(l)
  /\ main' = IF BagCardinality(buf') >= BufferSize THEN "import" ELSE main
  /\ UNCHANGED <<upstream, final, import, database, faults>>

(* ReadBytes reports the end together with what is left without a newline, *)
(* which is dropped.  The rest of the buffer is imported, even if empty.   *)
ReadEof ==
  /\ main = "read"
  /\ upstream # "running"
  /\ final' = TRUE
  /\ main' = "import"
  /\ UNCHANGED <<feed, buf, import, database, faults>>

-----------------------------------------------------------------------------
(* RunImport                                                               *)
StartImport ==
  /\ main = "import"
  /\ sqlite = "none"
  /\ sqlite' = "running"
  /\ copier' = "copying"
  /\ UNCHANGED <<feed, main, final, buf, pipe, database, faults>>

Copy(l) ==
  /\ copier = "copying"
  /\ sqlite = "running"
  /\ BagIn(l, buf)
  /\ BagCardinality(pipe) < PipeSize
  /\ buf' = buf (-) One(l)
  /\ pipe' = pipe (+) One(l)
  /\ UNCHANGED <<feed, main, final, copier, sqlite, database, faults>>

(* Mutant: nobody closes the pipe. *)
KeepOpen == FALSE

(* The deferred Close, which is what sqlite3 waits for.                    *)
CloseStdin ==
  /\ copier = "copying"
  /\ buf = EmptyBag
  /\ copier' = "done"
  /\ UNCHANGED <<feed, main, final, buf, pipe, sqlite, database, faults>>

CopyFails ==
  /\ copier = "copying"
  /\ sqlite = "failed"
  /\ buf # EmptyBag
  /\ copier' = "failed"
  /\ UNCHANGED <<feed, main, final, buf, pipe, sqlite, database, faults>>

(* .import makes a table that is missing out of the first line it sees.    *)
Insert(l) ==
  /\ sqlite = "running"
  /\ BagIn(l, pipe)
  /\ pipe' = pipe (-) One(l)
  /\ rows' = IF table THEN rows (+) One(l) ELSE rows
  /\ table' = TRUE
  /\ UNCHANGED <<feed, main, final, buf, copier, sqlite, indexed, faults>>

SqliteEnds ==
  /\ sqlite = "running"
  /\ copier = "done"
  /\ pipe = EmptyBag
  /\ sqlite' = "done"
  /\ UNCHANGED <<feed, main, final, buf, copier, pipe, database, faults>>

SqliteFails ==
  /\ sqlite = "running"
  /\ Fault
  /\ sqlite' = "failed"
  /\ UNCHANGED <<feed, main, final, buf, copier, pipe, database>>

Continue == main' = IF final THEN "index" ELSE "read"

(* Mutant: a batch that cannot be imported is left out. *)
ImportReturnsAnyway ==
  /\ main = "import"
  /\ sqlite \in {"done", "failed"}
  /\ Continue
  /\ sqlite' = "none"
  /\ copier' = IF copier = "copying" THEN copier ELSE "none"
  /\ UNCHANGED <<feed, final, buf, pipe, database, faults>>

(* When sqlite3 fails, RunImport does not wait for the goroutine; it need  *)
(* not, because log.Fatalf ends them both.                                 *)
ImportReturns ==
  /\ main = "import"
  /\ \/ sqlite = "failed" /\ main' = "fatal" /\ UNCHANGED import
     \/ /\ sqlite = "done"
        /\ copier = "done"
        /\ Continue
        /\ sqlite' = "none"
        /\ copier' = "none"
        /\ UNCHANGED pipe
  /\ UNCHANGED <<feed, final, buf, database, faults>>

BuildIndex(i) ==
  /\ main = "index"
  /\ i \in Index \ indexed
  /\ indexed' = indexed \cup {i}
  /\ UNCHANGED <<feed, main, final, buf, import, table, rows, faults>>

Exit ==
  /\ main = "index"
  /\ indexed = Index
  /\ main' = "done"
  /\ UNCHANGED <<feed, final, buf, import, database, faults>>

-----------------------------------------------------------------------------
Feed == UpstreamEnds \/ (main = "fatal" /\ UpstreamFails)
Read == InitDatabase \/ ReadEof \/ \E l \in Line : ReadLine(l)
RunImport == \/ StartImport \/ CloseStdin \/ CopyFails \/ SqliteEnds \/ ImportReturns
             \/ \E l \in Line : Copy(l) \/ Insert(l)
Finish == Exit \/ \E i \in Index : BuildIndex(i)

MaktaStep == Feed \/ Read \/ RunImport \/ Finish
MaktaFault == UpstreamFails \/ ScriptFails \/ SqliteFails

(* The exit status of the pipe, with and without "set -o pipefail".        *)
Ended == upstream # "running" /\ main \in {"done", "fatal"}
LastSucceeded == main = "done"
Succeeded == main = "done" /\ upstream = "done"

(* The batch belongs to one goroutine at a time: the loop does not fill it *)
(* while it is being copied, although RunImport returns without waiting    *)
(* for the goroutine if sqlite3 fails (tabutils.go:59-77).                 *)
BatchHasOneUser == copier = "copying" => main \in {"import", "fatal"}
=============================================================================
