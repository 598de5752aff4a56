# Verification of labe

TLA+ models of [labe](https://github.com/slub/labe), the citation service of
SLUB Dresden, with TLC runs on small instances and proofs checked by TLAPS.
Paths are relative to the repository; `server.go`, `fetcher.go`, `cache/`,
`cmd/`, `doi/`, `set/` and `tabutils/` are under `go/ckit/`, `tasks.py`, `base.py`
and `cli.py` under `python/labe/`, `main.yml` and `labed.service.j2` under
`ansible/roles/labe/`.

## The system

| component | source | state | operations |
|---|---|---|---|
| labed request handlers | `server.go`, `set/set.go` | per request: local variables of the handler, a context; shared: snippet pool | `GET /id/{id}[?i=ISIL]`, `GET /doi/{doi}`, `DELETE /cache`, `GET /cache` |
| result cache | `cache/cache.go` | table `map`, file, `readOnly`, watcher goroutine | `Get`, `Set`, `Flush`, `ItemCount`, size watcher |
| fetchers | `fetcher.go` | read-only databases | `Fetch`, `FromFiles`, `Ping` |
| labed process | `cmd/labed/main.go` | temporary cache file, database handles | start, signals, `ListenAndServe` |
| makta | `cmd/makta/main.go`, `tabutils/` | a database being built, a buffer, an sqlite3 process and a pipe to it | import in batches, build indices |
| doisniffer, tabjson | `doi/`, `cmd/doisniffer`, `cmd/tabjson` | none | filters of documents, line by line |
| task artifacts | `python/labe/base.py`, `cli.py` | outputs, `current` links on disk; per process: cached URLs, the list of deletable outputs | run, link, list deletable, remove |
| update tasks | `python/labe/tasks.py` | task graph, URL fingerprints | the tasks of `CombinedUpdate` |
| statistics | `python/labe/stats.py`, `experimental.py`, `diff.py` | outputs only | reports |
| deployment | `ansible/roles/labe` | crontab, systemd unit, its count of recent starts | nightly update, restart, restart on failure, cache warmup |

Every request to labed is a goroutine.  It reads three kinds of databases
(ids to DOIs, DOIs to DOIs, ids to documents), which the update tasks build
and which a running server never writes, and it shares the cache and a pool of
decoded document snippets with all other requests.  The nightly job removes
old artifacts, runs the update and restarts the server, which opens the
databases through the `current` links.

What is hard, and where (PROJECT.json lists the hazards line by line):

* a response is assembled over many queries, each of which may fail or be
  cancelled, and is stored before it is tailored: a partial or a tailored
  answer in the cache would be served to everybody from then on;
* requests, purges and the size watcher interleave on the cache;
* four paths lead to a reply (cached or fresh, plain or tailored) and all of
  them must say the same;
* pooled snippets keep what the last document left in them;
* the databases are updated separately, so an id may be known to one and not
  to the other;
* artifacts, links and the running server are changed by different processes
  that may crash in between;
* the server opens its databases through links, at any time and one connection
  after the other, while the links move;
* a program in a pipe sees the failure of the one before it as an early end of
  its input, and three pipes append to one file.

What makes each component correct: the handlers give every client the answer
that the databases give, or a failure that has a reason; the cache holds
complete answers only and obeys its limit; cleaning up never takes a current
output, links point to outputs that exist, names tell which data is inside, and
after
whatever crash the next night brings everything up to date; whoever reads
through a link gets complete outputs and newer and newer ones; the server
answers from nothing older than its start and ends up with what is current; the
id database has a row for every document that it should.

## Modules

| module | what it is |
|---|---|
| `CitationData` | the databases as constants, the queries and the pure parts of the lookup as operators; what a correct answer is |
| `CitationService` | abstract specification: a request is accepted, may be abandoned, and is answered once, as the databases say |
| `ResultCache` | `cache/cache.go`: one action per operation and per step of the size watcher |
| `LabedServer` | the handlers of `server.go`; instantiates `ResultCache` for its cache and `CitationService` for the refinement |
| `LabedServerMC` | the small library that the runs use |
| `Releases` | abstract specification: what the directory of outputs promises to a program that reads through the links |
| `ArtifactStore` | outputs, links, cleanup and the jobs of cron, for any task graph; implements `Releases` |
| `LabeTasks` | the task graph of `tasks.py`, `stats.py` and `experimental.py` |
| `ArtifactStoreMC` | parts of that graph as the constants of `ArtifactStore` |
| `Deployment` | the process labed under systemd, on databases that change as `Releases` says, and the job that restarts it |
| `DeploymentMC` | two databases for `Deployment` |
| `DoiSniffer` | which DOI a document is mapped to, as operators |
| `Makta` | makta at the end of a pipe, its goroutine and its sqlite3 process |
| `IdMapping` | the tasks `IdMappingTable` and `IdMappingDatabase`: three pipes with `DoiSniffer`, one with `Makta` |
| `IdMappingMC` | a few documents for `IdMapping` |
| `LabedServerProofs`, `LabedServiceProofs` | theorems about `LabedServer`: its state and its cache; that it implements `CitationService` |
| `ArtifactStoreProofs`, `ArtifactContentProofs`, `ArtifactOwnedProofs` | theorems about `ArtifactStore`, for any number of jobs: types; what outputs are made of; what a job can rely on for all that no other job touches |
| `DeploymentProofs`, `IdMappingProofs` | theorems about `Deployment` and `IdMapping` |

`Deployment` does not contain `ArtifactStore`: it knows of the directory what
`Releases` says, and `DirectoryKeepsPromise` proves (`nightly` and `two_jobs` check) that
`ArtifactStore` does nothing else to the outputs that only one job touches (`Owned`).
The databases that labed opens are such outputs: reports are built from none of
them, as TLC checks on the task graph (`DatabasesHaveOneWriter`), so the statistics
job may overlap with the nightly one and labed need not care.

### How the model corresponds to the code

**Databases.** `IdMap` is a sequence of rows because the same id and the same
DOI may occur in several rows and queries for one row take the first. `OciMap`
is a set since the handler collects its rows in sets. `Backends` is the fetch
group in order of priority; a document is abstracted to what the server looks
at: is it JSON, and which institutions does it name. `Fetched(i)` is the set of
backends that may serve `i` when the ones in `FaultyBackends` may fail.
`MapToLocal` is one query of `mapToLocal`; the batches are steps of the handler.

**Responses.** `Response` has the fields of the Go type except the id, which is
that of the request, and `took`. The lists are sets of entries: a document is
named by the row that led to it and the backend that served it, so two rows
with one id remain two documents as in the code; a stub is a record with a DOI.
The order of the lists, which depends on the iteration order of Go maps, is
left out.

**Handlers.** `pc[c]` is where the handler of connection `c` is; steps are cut
at the calls that touch something shared or that can fail, and they carry the
numbers of the comments in `handleLocalIdentifier`:

| `pc` | action | code |
|---|---|---|
| `redirect` | `HandleDOI` | `handleDOI` |
| `validate` | `Validate` | ISIL check |
| `cache` | `ServeFromCache` | (0) |
| `resolve` | `ResolveId` | (1) |
| `edges` | `FindEdges` | (2), (3) |
| `map` | `MapBack` | (4), (5) |
| `fetch` | `FetchDocument`, `Complete` | (6) |
| `store` | `StoreResponse` | (7), `cacheResponse` |
| `filter` | `FilterDocument`, `FinishFilter` | (8), `applyInstitutionFilter` |
| `send` | `Send` | (9) |

`Receive` and `Cancel` are the client; a query of a request that has been
cancelled fails, which is how `database/sql` treats a done context. Fetching
documents and the cache do not get the context, so they go on. `mapToLocal` asks
for at most `BatchSize` DOIs at a time (500 in the code), in the order of a Go
set, i.e. any: `unasked` is what is in no batch so far, and each batch is a step
that may fail after others have succeeded. Whether a
request was slow enough to be cached is left to chance. When a handler ends its
variables are reset, since they go out of scope.

**Cache.** `Set` and `Flush` hold the mutex for one statement and are one step;
`Get` takes no lock and is one step because SQLite makes it one. The size of
the file is counted in rows, it grows with the table and does not shrink, as a
SQLite file does without `VACUUM`. The watcher looks at the size (`Tick`) and
sets the mode (`SwitchToReadOnly`) in two steps, because the first happens
outside the lock.

**Snippets.** `pool` is the set of what is left in the pooled snippets. One that
is taken may be one of several with the same content, so taking it may or may
not remove the content; `sync.Pool` may be emptied at any time (`CollectPool`).
`PoolSize` bounds the distinct contents that are kept, which is itself a
behaviour of a pool.

**Artifacts.** `out[t][n]` is the output of task `t` with the version `n` in its
name, a date or the hash of the URL of a dump. It is the set of sources it was
made of, as pairs of a task without inputs and the version that task had: that
is all the properties tell apart in the results of the shell pipelines. A file
of that name is complete, as `LocalTarget.move` renames a finished file.
`link[t]` is where `current` points, whether or not there is a file.

**Jobs.** A job is a process that cron starts, with a phase:

| phase | action | code |
|---|---|---|
| `list` | `ListDirectory` | `labe.pyz --list-deletable`, `cli.py:225` |
| `rm` | `Remove` | `rm -f`, one file at a time |
| `update` | `CheckComplete`, `Expand`, `BeginTask` .. `MakeLink` | `labe.pyz -r`, `cli.py:287` |
| `restart` | `Restart` | `systemctl restart labed` |

A job that is no `Cleaner` only has the phase `update`. Cron starts a job whether
or not another one still runs. That a job has ended when cron starts the same one
again (`PreviousEnded`) is an assumption on the environment, an update that takes
less than a day: nothing in the code sees to it, as luigi's lock covers `labe.pyz
-r` only and neither the listing nor the `rm`. If a nightly job ran into the
next one, the second could list an output between its move and its link and leave
the link dangling, as `link_refused` shows of two other jobs. So all that is said
below of outputs that one job alone touches (`Owned`) holds as long as an update
ends before the next night. Two overlapping nights are two elements of `Cleaner`
in the model, and nothing is `Owned` then; what is proved about contents holds
also of them. The result of `luigi.run` is not looked at, so the
nightly job goes on whatever has failed (`FinishUpdate`).

`--list-deletable` reads the directories one after the other, and the step for
one directory reads its files and its link at once. In the code the names come
first and the link is read later, so what the code lists is what the step lists
at the moment the link is read, less the outputs that another job has moved in
between. Those can only be spared by it, never lost.

A task goes through the steps of `Task.run` and `on_success` one by one, since
another job may step in anywhere: its inputs are opened (`ReadInputs`), its
output is moved (`MoveOutput`), and `create_symlink` asks (`FindLink`), removes
(`RemoveLink`) and links (`MakeLink`), each of which may find that another job
was there first. What is luigi's is external and as general as its users may
rely on: the URL is looked up task by task while luigi asks what is complete,
then tasks whose inputs are complete run in any order and at the same time, a
failed one may be tried again as long as others run. `Lenient` tasks read by
process substitution and do not notice a missing input.

Reports have no `on_success` and thus no link (`Unlinked`); their outputs are
deletable at once, except where a `.labekeep` is. `LabeTasks` has the relation
of all `requires()`, and `Queue` and `DepGraph` are what `build_dep_graph` of
`deps.py` computes over it, level by level. TLC checks some assumptions on every
run of `ArtifactStoreMC`: `GraphEnds`, the graph has no cycle, so that
`build_dep_graph`, which does not remember where it has been, ends;
`UpdateIsLinked`, what the nightly job builds, and all that it builds that from,
has a link; and `DatabasesHaveOneWriter`, no report is built from a database.
Four more say that the theorems' hypotheses are met by the graph there is:
`DumpTasksApart`, `UpdateIsStrict`, `OnlyReportsKept` and `ChainBegins`.

**The promise of the directory.** `Releases` has two variables, the outputs and
the links. An output appears complete and never under the link, is discarded
only when it is not linked, a link is removed, or is made to the newest output
there is. `KeepsPromise` of `ArtifactStore` is this specification with `{}` for
an output that is not there; a content is the set of its sources.

**The server on its host.** `proc` is where the process is in `main`:

| `proc` | action | code |
|---|---|---|
| `inactive`, `failed` | `Start`, in `StartAgain` and `AutoRestart` | systemd |
| `stat` | `Stat`, one database at a time, then `CreateCache` or `CacheFails` | `OpenDatabase`, `FromFiles`, `main.go:137-172` |
| `created` | `SetupCache` or `CacheFails` | signal handler, `cache.New`, `main.go:173-205` |
| `ping` | `Ping`, one database at a time, then `Serve` or `ListenFails` | `main.go:206-227` |
| `serving` | `Receive`, `Query`, `QueryFails`, `Reply` | a request |
| `removed` | `ExitProcess`; requests go on, and new ones come, until then | the goroutine that waits for SIGTERM |

`sqlx.Open` opens nothing: a connection is opened when one is needed, by the name
of the link, and then keeps its file. So `conns[d]` is the set of versions that
open connections read, and a query uses one of them or opens another.
`Openable` is empty while there is no link, since databases are opened with
`mode=ro`. A request is abstracted to which versions it has read; a reply may
put them into the cache (`cached`). `left` is what the last process left of its
cache: the file, with rows or without, and the driver's rollback journal next to
it. The connections of the server have SQLite's default journal mode, since `PRAGMA
journal_mode = OFF` (`cache/cache.go:106`) is run in a separate `sqlite3` process;
so a process that ends in the middle of a `Set` (`Writing`) may leave a journal,
which nobody removes. SIGTERM comes from `systemctl restart` only; SIGKILL, out of memory
an address in use and a disk without room for the cache are faults (`Kill`, `ListenFails`, `CacheFails`). `since` is a history
variable: what has been linked since the process was started. `starts` counts
for systemd's limit; time passes for it while labed serves. The nightly job
begins when labed is up or has been given up, since one starts in seconds and
the other comes once a day.

**The id database.** In `DoiSniffer` a document has fields, each with the first
match of the pattern in it or none; which strings match and what `PostProcess`
makes of them are constants. A document of `main` or `slub-production` is mapped to
one of the DOIs sniffed, unless it has `doi_str_mv`, whose first DOI then comes
first; one without a match is skipped even if it has `doi_str_mv`. Documents of
`ai` are mapped by `doi_str_mv` alone. `IdMapping` goes through the pipes index by
index (`Convert`, in any order, as doisniffer and GNU parallel work in batches),
appending to one temporary file; a program that fails ends the task, and some
day it starts anew with another file.

`Makta` is a process (`main`) between two pipes. `stdin` is what upstream has still
to write, `buf` the batch, `copier` the goroutine of `RunImport`, `pipe` what it has
written to sqlite3, `rows` the table. When upstream fails, what it had to write is
lost, and makta sees the end of its input (`ReadEof`): only the exit status of the
pipe tells (`Succeeded`). sqlite3 ends when its input is closed, `RunImport`
returns when sqlite3 has ended and, if that went well, the goroutine too. Files
and pipes are bags of lines: a row could be there twice, and order does not
matter.

## Runs

The library of `LabedServerMC` has a document `a` that cites `b` (two local
ids), is cited by `c`, is in a mutual citation with `b`, and has one unmatched
DOI on either side. Ids `i5` (no citations) and `i9` (no DOI) cannot be
answered. The two backends disagree about one document.
`troubled` has a library of its own, a chain of citations, with one request that is
always answered, although a backend is faulty, one that always fails, because a
document is not JSON, and one that is answered or fails, depending on which backend
the document comes from: it is ill-typed in the faulty one. There a 500 without
a reason, or a reply that cannot be encoded, would be found; in `requests`, where every
query may fail, it would have an excuse.

| run | what varies | shows |
|---|---|---|
| `requests` | two connections, every kind of request; every query, cache statement and the first backend may fail, clients go away, purges, a cache that is over its limit after the first row | `TypeOK`, `CacheSound`, `NothingDropsOut`, `ReadOnlyOnlyOverLimit`, `ServiceRefinement`, `ReadOnlyIsFinal` |
| `troubled` | a faulty backend, malformed and ill-typed documents, requests that must be answered and that must fail; fair handlers and watcher | `CacheSound`, `ServiceRefinement`, `Answered`, `LimitEnforced` |
| `missing_blob` | one related document is in no backend | violates `MissingDocumentIsSkipped` |
| `stale_snippet` | one document has no institution field | violates `FilterByIndexData` |
| `nightly` | the nightly job alone, under fairness, with two days, two dumps, two crashes or failures | `TypeOK`, `CurrentExists`, `NameTellsContent`, `DoneIsCurrent`, `RemovesOnlyOutdated`, `KeepsPromise`, `Recovers` |
| `two_jobs` | the statistics job overlaps with the nightly one, one fault | `BuiltFromAll`, `KeepsPromise` |
| `half_read` | two jobs, with a task that reads by process substitution | violates `BuiltFromAll` |
| `link_refused` | two jobs that share index data | violates `OverwritesLinks` |
| `changing_dump` | a dump is released during an update | violates `NameTellsContent` |
| `deployment` | two databases, two versions, one request at a time, systemd gives up after two starts, one kill, crashed job, full disk or address in use | `TypeOK`, `NoAnswerFromBefore`, `ServedIsCurrent`, `Available`, `DataIsEphemeral` |
| `mapping` | seven documents of three indices, batches of two, a pipe that holds one line, two failures | `TypeOK`, `MappingComplete`, `BatchHasOneUser`, `GetsMapped` |
| `unsearched_list` | a document with its DOI in a list, no failures | violates `ListsAreSearched` |

Why the bounds are enough: what two connections share is the row of one id in
the cache, the mode of the cache and the pool, so two of them, asking for the
same id with and without an institution, meet in every way; a
third one adds no new kind of meeting. `MaxFileSize = 0` (`requests`) or `1` (`troubled`) makes the cache go over its
limit with the first or second row, and the watcher may take any time to notice, so rows are
stored before and after the switch. The library has every case of the two switch
statements and of the fetch group. `a` is related to four DOIs, the other ids to
one each: with `BatchSize = 2` a list is shorter than a batch or just fills
two of them. In `troubled` a list has one or two DOIs, so that it just fills one batch. A pool of one content
(`requests`) is enough for two filters to meet in it; `troubled` takes new
snippets only. `missing_blob` and `stale_snippet` need one connection and no faults.

The runs of `ArtifactStore` take five or six tasks out of the graph: a chain
over index data and one over citation data, up to three tasks deep, in the runs
of one job; shared index data and a chain of reports in those of two. Two days
and two dumps make a version outdated and let a release fall into a running
update as well as between two; two faults let a recovery be interrupted again.
(With a third dump and without fairness the safety properties of `nightly` were
checked on a million states.) `two_jobs` and `half_read` need no second day,
since what is removed is what has no link.

In `deployment` two databases let a request read one before and one after an
update, or find one link missing and the other not. Two versions are an old and
a new one, in either order of appearance and again after being discarded. A
limit of two starts is reached while a link is missing. The model does not
bound the number of updates and restarts; the state is finite without that.

In `mapping` there are a document with two DOIs to choose from, one whose match
has to be cut, one whose only DOI is under an ignored key, one with `doi_str_mv`
besides a match, and one of `ai` without `doi_str_mv`: five rows out of seven
documents, so two batches are full and the last one is not, or is empty if upstream
fails after an even number of lines; and a batch is larger than
the pipe to sqlite3 holds, so that each side may have to wait for the other. Two
failures hit one attempt each, or an upstream program and makta in the same one.
The run stops when the database is made, hence `CHECK_DEADLOCK FALSE`; `GetsMapped` says
that it stops nowhere else.

`CacheSound` is the heart: under an id there is the complete, unfiltered and
decodable answer, or nothing. `NothingDropsOut` is the reason for it: at every
step, what a request has collected and what it still has to fetch make up the
complete answer. `ServiceRefinement` says that the server implements
`CitationService`: each reply is the answer that the databases give, tailored
if asked for, or a failure that has a cause (`MayFail`), or the end of an
abandoned request; in particular nobody can tell whether a reply came from the
cache. `Answered` and `LimitEnforced` are the liveness properties. `LimitEnforced` is checked
without a failing `Stat` of the cache file (`CacheFaults`), which ends the watcher for good
(`cache/cache.go:86-90`), and with it the limit.

In the store, `CurrentExists` and `RemovesOnlyOutdated` are what the server and
the nightly job rely on, `DoneIsCurrent` is why a task that is complete may be
left alone, and `NameTellsContent` why it need not be built again. A link that two
jobs make or remove at once is nobody's to rely on (`link_refused`), so all but
the last are about `Owned`, what only one job touches: in `nightly`, with one job,
that is everything, in `two_jobs` it is the id database. A dump may be released at any moment of an update also in
`nightly`, where `NameTellsContent` holds: all citation data is one chain there,
and URLs are looked up from its end to its beginning, so that inputs can only be
newer than the name of the output. `changing_dump` has two chains with a common
input, and there it does not hold. `KeepsPromise` is the refinement of `Releases`.
`Recovers` is the liveness
property: it needs the cleanup, which turns a task that was left without a link
back into one to be built.

On the host, `NoAnswerFromBefore` says that whatever labed may answer from, open
connections, requests under way and cached responses, was linked at some time
since it was started: the reason why it is restarted after an update, and
why the cache has to be a new file. `ServedIsCurrent` is what the whole deployment
is for: an output that stays the current one becomes the only one that labed answers
from. It needs that the restart comes even if the update failed in part,
since a part has succeeded. `Available` is about systemd, which gives up on a
server that does not find its databases, and `DataIsEphemeral` about the claim
that "the cache file does not survive the process" (`main.go:166-167`): its
rows do after a fault like SIGKILL, a file without rows may stay in other cases,
and a journal when the exit comes in the middle of a write.

`MappingComplete` says that no failure, of whichever program and at whichever time,
makes its way into a database that counts as complete. `BatchHasOneUser` is what
makes it correct that `RunImport` does not wait for its goroutine when sqlite3
fails, and `GetsMapped` that makta, its goroutine and sqlite3 never wait for each
other in a circle.

**Fairness.** `FairSpec` of `LabedServer` assumes weak fairness of each handler:
a goroutine that can take a step is eventually scheduled, and queries return.
Nothing is assumed of clients, purges or the garbage collector. It also assumes
weak fairness of the size watcher (`KeepWatch`), which a ticker wakes every 30
seconds; not of its failing. `FairSpec` of
`ArtifactStore` assumes weak fairness of what cron and a job do on their own:
cron starts every job every day, and its commands get on with their work.
Nothing is assumed of days, dumps, crashes and failures, which are bounded: they
stop at some point. `FairSpec` of `Deployment` assumes that the process gets on with
its start and its exit, that systemd restarts what has failed, and that the
nightly job starts, ends in some way and restarts labed; nothing is assumed
of the updates themselves, requests, kills and the passing of time. `FairSpec` of
`IdMapping` assumes weak fairness of each process: of the tasks, which luigi
tries again the next night, and, while the pipe runs, of upstream, makta's main,
`RunImport` with its goroutine and sqlite3, and the building of indices;
failures are bounded.

### Where code and documents differ

* `missing_blob`: the loop over the ids skips `ErrBlobNotFound`
  (`server.go:554`), but a `FetchGroup` returns `ErrBackendsFailed`
  (`fetcher.go:97`) and nothing returns the former. One document that is not in
  the index data therefore fails every request it is related to, although the
  databases may be "updated separately" (`cmd/labed/main.go:62`).
* `stale_snippet`: snippets are put back into the pool as they are
  (`server.go:154-164`), so a document without an `institution` field is judged
  by another document's institutions, instead of by what is "found in the index
  data" (`server.go:142-143`). The comment goes on to say that the field is expected
  (`server.go:144-145`), but not what happens without it. As long as every document has the field this
  cannot be seen, which is what `requests` checks.
* `link_refused`: the nightly job may list an output of the statistics job
  between its move and its link, and remove it after the link was made. This
  needs a statistics job of noon that still runs at five past midnight. The link
  then dangles, which violates `CurrentExists` in this run, and `create_symlink`,
  which "overwrites existing links" (`base.py:120`), does not overwrite it:
  `os.path.exists` follows the link. The task fails on every day until somebody
  removes the link.
* `changing_dump`: each task looks the URL up for itself, so a task may be named
  after a new dump and built from the old one. It then counts as complete
  although it "need[s] to be regenerated" (`tasks.py:77-78`).
* A variant without a run: with an update and a cleanup that are separate jobs, as
  in `python/README.md:51-52`, a crash between output and link is not repaired by
  the next update, which finds the task complete, and the cleanup removes the
  output. `DoneIsCurrent` fails for `Job = {"update"}` and `Cleaner = {}`. With
  both in one job, as in ansible, the next night repairs it (`nightly`).
* `half_read`: a task that reads by process substitution takes an input that was
  removed for an empty one, and succeeds; "a failed pipe will cause an error"
  (`base.py:217`) does not extend to it.
* `unsearched_list`: `SearchMap` looks into values of type `[]string`
  (`doi/sniffer.go:137`), but lists decoded from JSON are `[]interface{}`, so
  fields with several values are never searched. The test "find in list"
  (`doi/sniffer_test.go:70`) passes a Go value that no document yields. A document
  whose DOI is in such a field gets no row, although documents are passed
  through "which actually contain a DOI" (`go/ckit/README.md:45`).

## Proofs

`LabedServerProofs` proves for any databases (finitely many ids and DOIs), any
number of connections, any faults and any limit:

* `TypeCorrect`: `Spec => []TypeOK`. The type contains `Routed`: a handler past
  the validation has a valid ISIL or none.
* `NoRowIsLost` and `CacheCorrect`: `Spec => []NothingDropsOut` and
  `Spec => []CacheSound`. `CacheSound` is not inductive: `StoreResponse` puts
  into the cache whatever the handler has. The inductive invariant `IInv` adds
  `NothingDropsOut`, which describes the response of a handler at every step up
  to that point. There is one lemma per handler step; `OneMoreRow` is the
  central one: a fetched document takes its row from the rest to one of the two
  lists. All other connections are untouched (`Same`).

* `ReadOnlyHasReason` and `ReadOnlyForGood`: `Spec => []ReadOnlyOnlyOverLimit` and
  `Spec => ReadOnlyIsFinal`, for the cache as the server uses it. The first rests
  on `CacheInv` (a limit in the naturals, a watcher that is past `Tick` only when
  the file is over it) and on the file never shrinking (`GrowType`); both on
  `OnlyCacheOperations`, which says that each step of the server leaves the
  cache alone or is one operation of `ResultCache`.

`LabedServiceProofs` goes on to the reply, under one hypothesis, `FieldsGiven`: no
document is without the `institution` field. The databases of `requests` and
`troubled` satisfy it; `stale_snippet` shows that it cannot be dropped.

* `ServerImplementsService`: `Spec => ServiceRefinement`. `ServiceInv` extends `IInv`
  by what is known after the response may have been stored (`Filtering`): putting
  the documents among the unmatched back gives the complete answer, the documents
  looked at are where they belong, the others are still listed. `MovedIsAnswer` is
  the step of the filter. Each step of a handler is then shown to be good
  (`GoodStep`): it ends with a reply that the service allows, or is invisible to
  it, and keeps the invariant. Every failure is given its excuse: `BadDocument`
  finds the malformed document in the databases, `NothingFound` the missing row.
  `StepSimulation` puts the steps together; a request is `busy` while its `pc` is
  not `idle`.
* `FilterIsRight`: `Spec => []FilterByIndexData`, so documents without the field are
  all that makes `stale_snippet` fail. `ReplyInv` adds that a reply of status 200
  stays an answer to the last request of its connection.

`ArtifactStoreProofs` proves for any task graph, any number of days, dumps,
crashes and failures:

* `TypeCorrect`: `Spec => []TypeOK` for any number of overlapping jobs. The
  invariant `JobInv` adds that a task that is worked on has a version, that work
  is done in the phase `update` only, that what a running task has read is not
  empty (`SourceStep`), and that nothing is listed from a kept directory.

`ArtifactContentProofs` is about the contents, for any number of jobs that remove
and replace files under each other:

* `NamesTellContent`: `Spec /\ NoReleaseInUpdate => []NameTellsContent`, if tasks named
  by the dump need only such tasks (`DumpsApart`; the graph does, `DumpTasksApart`).
  It speaks of the whole graph of the code, with `OpenCitationsSingleFile` under the
  database, the ranked list and the counts: as long as dumps are released between
  updates only, all tasks of an update see the same one (`NamesCurrent`).
  `changing_dump` shows what a release in between does.
* `UnsharedNamesTellContent`: with releases at any time, files named by a date contain
  nothing dated earlier, and files named by the dump nothing older if, down to the
  download, each input is needed by one task only (`Chained`), as the archive
  and the single file are (`ChainBegins`) and everything in `nightly`.
  `NameInv` says that URLs are looked up in the order in which tasks require each
  other, so that a dump looked up later is not older; `ContentInv` that what is
  stored, and what running tasks have read, is as old as its name at most. Both
  theorems follow from it, with different reasons why inputs are in order (`InOrder`).
* `StrictBuiltFromAll`: an output is built from all the sources that the graph says
  (`Sources`), if neither its task nor one that it is built from reads by process
  substitution (`Strict`), whatever other jobs remove at whichever time. All that
  the nightly job builds is so (`UpdateIsStrict`). With no such task at all it is
  `PipesBuildFromAll`, `Spec => []BuiltFromAll`, so process substitution is all that
  makes `half_read` fail. That `Sources` exists, for every graph, is `SourcesDef`, by
  the closure of a set and not by induction.

`ArtifactOwnedProofs` is about what only one job touches, as long as it ends before
cron starts it again (`PreviousEnded`), `Mine(j)` for the job `j`: the
tasks that it asks for with all they require, or all tasks if it cleans up, without
those of other jobs. The others go on with theirs, crash and fail. The invariant
`OwnInv` has three parts. `NameInv` is the one above. `Theirs` says that a job works
on nothing that it does not touch. `MineInv` describes each job's own part:

* an output listed for removal is not linked, although links are made after the
  listing and removal comes later still (`ListedNotLinked`); the output of a task
  that is being linked or counts as done is there (`OutputMoved`, `DoneExists`). The
  cleanup and the update exclude each other within one job: that is what fails
  with two, and why `CurrentExists` by itself is not inductive.
* a task that has not been built has no output under its name (`NotBuilt`), so
  none is replaced.
* no output is newer than what a job under way would build (`OutputsOld`,
  `NamesNewest`, `TodayNewest`), so no link goes back.
* a link is never found in the way (`LinkRemoved`, `NeverRefused`).

`Frame` says that a step of another job changes none of this: it leaves the job's
state alone, and the outputs and links of what it does not touch. The theorems:

* `LinksExist`, `Spec => []CurrentExists`; `CleanupIsSafe`, `Spec => RemovesOnlyOutdated`.
* `DirectoryKeepsPromise`: `Spec => KeepsPromise`, the refinement, each step of any job
  being one of `Releases`, or none, on the part `Owned`.
* `OwnedLinksOverwritten` and `OwnedInputsBuildAll` (`Spec => []BuiltFromAll` if only one
  job touches the inputs of each task with process substitution): `link_refused` and
  `half_read` need two jobs with a task in common. With one job there is no
  such task (`AloneOverwritesLinks`, `AloneBuildsFromAll`).
* `OwnedDoneIsCurrent`: `Spec => []DoneIsCurrent`, for jobs that clean up, if no linked
  task is kept by a `.labekeep` (`OnlyReportsKept`). `TidyInv` follows the cleanup:
  what is left to list, then to remove, then nothing but linked outputs (`Tidy`),
  then what is done is linked (`DoneLinked`).

`DeploymentProofs`, for any databases, requests and limits: `TypeCorrect`,
`AnswersSinceStart` (`NoAnswerFromBefore`) and `CacheFileIsEphemeral`
(`DataIsEphemeral`). The invariant adds that nothing is open or under way when no
process is up, that a new cache is empty until the process serves, and that what is
linked while a process lives is in `since`.

`IdMappingProofs`, for any documents and indices, batch and pipe sizes:

* `TypeCorrect`, and `BatchNotShared` for `BatchHasOneUser`.
* `MappingIsComplete`: `Spec => []MappingComplete`. For the table, `Partly` says of each
  index in turn which documents have their rows in the temporary file. For the
  database, `Kept` says where each line is: the lines upstream, in the
  batch, in the pipe and in the table are, counted with their copies, those of the
  id table, as long as upstream has not failed. Failures only have to lead to
  `failed` or `fatal`, which is where `pipefail` and `log.Fatalf` are needed.

The assumptions are those of the modules, which TLC evaluates on the instances:
`DataAssumption` (the shape of the databases), `ServerAssumption` (distinct marker
values, Boolean flags, natural bounds, batches of at least one),
`StoreAssumption` (sets of tasks and jobs, natural bounds), `DeploymentAssumption`,
`SnifferAssumption` (ids of documents are unique), `MaktaAssumption` and
`MappingAssumption` (each index has its turn once).

Model-checked only: `Answered`, `LimitEnforced`, `Recovers`, `ServedIsCurrent`,
`Available` and `GetsMapped`, because liveness under fairness is out of the prover's
reach; and the properties that runs show to be violated, as far as no theorem
says under which hypothesis they hold. What recursive functions compute
(`DepGraph`, `Queue`) is evaluated by TLC on the graph there is.

## Not modelled

The index page, `/stats`, logging, `took`, compression, the encoding of
responses beyond whether it succeeds, and the order of lists. The regular
expression for ISILs is abstracted to valid or not. A reply that breaks off
while it is written looks to the client like a connection error and is not
distinguished from one that arrives. `tabjson` (a filter without state) and the
small Go helpers.

Of the update: what the pipelines other than those of the id database compute,
the minimum sizes as numbers, the temporary files that failed tasks leave, the
number of workers, and the spelling of paths, which `--list-deletable` compares
as strings. Experimental tasks are in the graph, but no job runs them; their
outputs are named by the experiment and not by the dump. Of the scraper in
`oci.py` there is what a task sees of it: a URL that changes with the dump, or a
failure. `diff.py` prints. Rows that `.import` rejects, a line without newline at
the end of a file, and bytes as the unit of makta's buffer and of pipes (lines
in the model) are left out. `data/` has one-off scripts and reports.

## Plan

1. `CitationData`, `ResultCache`, `LabedServer`, `CitationService` (done).
2. `ArtifactStore`, `LabeTasks`, `Releases` with the refinement (done).
3. `Deployment`: the life of the server on its host (done).
4. `DoiSniffer`, `Makta`, `IdMapping` (done).
5. Proofs of the safety properties that the runs check, of both refinements, and
   of the hypotheses under which some violated ones hold (done).
6. Perhaps: the nightly job overlapping itself, and what it costs; the safety
   part of `ServedIsCurrent`; the experimental tasks with their versions in
   `ArtifactStore`.
