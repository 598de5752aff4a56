------------------------------ MODULE LabedServer ------------------------------
(***************************************************************************)
(* The request handlers of go/ckit/server.go, run concurrently, one        *)
(* goroutine per connection, over the three databases, the shared result   *)
(* cache and the shared pool of Snippet values.  The atomic steps are the  *)
(* calls that touch something shared or that can fail.                     *)
(***************************************************************************)
EXTENDS CitationData

CONSTANTS Conn, BadIsil, DbFaults, CacheFaults,
          NoRow,        \* no cached response
          CacheEnabled, \* flag -c: is Server.Cache set?
          MaxFileSize,  \* flag -cx, in rows
          BatchSize,    \* SQLite's limit on variables, 500
          PoolSize,     \* bound on the distinct leftovers kept in snippetPool
          Requests      \* the requests that clients send

VARIABLES pc,     \* where the handler of a connection is
          req,    \* the request it serves
          gone,   \* its context has been cancelled
          outbound, inbound, \* the sets of the same name
          unasked, \* DOIs that mapToLocal has in no batch so far
          ids,    \* rows found by mapToLocal that still have to be fetched
          docs,   \* documents the institution filter still has to look at
          resp,   \* the Response under construction
          reply,  \* what was sent
          rows, fileSize, readOnly, watcher, \* the cache
          pool    \* what is left in the snippets of snippetPool

local == <<outbound, inbound, unasked, ids, docs, resp>>
request == <<req, gone>>
cacheVars == <<rows, fileSize, readOnly, watcher>>
vars == <<pc, request, local, reply, cacheVars, pool>>

Cache == INSTANCE ResultCache WITH Key <- Id, Value <- Response, NoValue <- NoRow

Service == INSTANCE CitationService WITH busy <- [c \in Conn |-> pc[c] # "idle"]

ASSUME ServerAssumption ==
  /\ NoRow \notin Response
  /\ BadIsil \notin Isil \cup {NoIsil}
  /\ {DbFaults, CacheFaults, CacheEnabled} \subseteq BOOLEAN
  /\ MaxFileSize \in Nat
  /\ BatchSize \in Nat \ {0}
  /\ PoolSize \in Nat
  /\ Requests \subseteq Service!Request

Label == {"idle", "redirect", "validate", "cache", "resolve", "edges", "map",
          "fetch", "store", "filter", "send"}

(* The router sends lookups to one handler and DOIs to the other, and only *)
(* a lookup with a valid ISIL or none gets past the validation.            *)
Routed ==
  \A c \in Conn :
    /\ pc[c] = "redirect" => req[c] \in Service!Redirection
    /\ pc[c] \notin {"idle", "redirect"} => req[c] \in Service!Lookup
    /\ pc[c] \notin {"idle", "redirect", "validate"} => req[c].isil # BadIsil

TypeOK ==
  /\ Routed
  /\ pc \in [Conn -> Label]
  /\ req \in [Conn -> Requests]
  /\ gone \in [Conn -> BOOLEAN]
  /\ outbound \in [Conn -> SUBSET Doi]
  /\ inbound \in [Conn -> SUBSET Doi]
  /\ unasked \in [Conn -> SUBSET Doi]
  /\ ids \in [Conn -> SUBSET Row]
  /\ docs \in [Conn -> SUBSET Doc]
  /\ resp \in [Conn -> Response]
  /\ reply \in [Conn -> Service!Reply]
  /\ Cache!CacheTypeOK
  /\ pool \subseteq Institutions

Init ==
  /\ pc = [c \in Conn |-> "idle"]
  /\ req \in [Conn -> Requests]
  /\ gone = [c \in Conn |-> FALSE]
  /\ outbound = [c \in Conn |-> {}]
  /\ inbound = [c \in Conn |-> {}]
  /\ unasked = [c \in Conn |-> {}]
  /\ ids = [c \in Conn |-> {}]
  /\ docs = [c \in Conn |-> {}]
  /\ resp = [c \in Conn |-> EmptyResponse]
  /\ reply = [c \in Conn |-> Service!NoReply]
  /\ Cache!CacheInit
  /\ pool = {}

-----------------------------------------------------------------------------
(* Handler steps.  Goto moves on; Finish replies, and the local variables  *)
(* of the handler go out of scope.                                         *)
At(c, l) == pc[c] = l
Goto(c, l) == pc' = [pc EXCEPT ![c] = l] /\ UNCHANGED reply

Finish(c, r) ==
  /\ pc' = [pc EXCEPT ![c] = "idle"]
  /\ reply' = [reply EXCEPT ![c] = r]
  /\ outbound' = [outbound EXCEPT ![c] = {}]
  /\ inbound' = [inbound EXCEPT ![c] = {}]
  /\ unasked' = [unasked EXCEPT ![c] = {}]
  /\ ids' = [ids EXCEPT ![c] = {}]
  /\ docs' = [docs EXCEPT ![c] = {}]
  /\ resp' = [resp EXCEPT ![c] = EmptyResponse]

Fail(c, status) == Finish(c, Service!Failed(status))

(* Mutant: every error is taken for sql.ErrNoRows. *)
EveryErrorIsNoRows(c, onCancel) ==
  \/ gone[c] /\ Finish(c, onCancel)
  \/ ~gone[c] /\ DbFaults /\ Fail(c, 404)

(* A query on the id or citation database: it may fail, and it does once   *)
(* the client has gone; every handler returns at that point.               *)
QueryFails(c, onCancel) ==
  \/ gone[c] /\ Finish(c, onCancel)
  \/ ~gone[c] /\ DbFaults /\ Fail(c, 500)

-----------------------------------------------------------------------------
(* A client sends a request, or gives up on it.                            *)
Receive(c, q) ==
  /\ At(c, "idle")
  /\ pc' = [pc EXCEPT ![c] = IF q.kind = "doi" THEN "redirect" ELSE "validate"]
  /\ req' = [req EXCEPT ![c] = q]
  /\ gone' = [gone EXCEPT ![c] = FALSE]
  /\ reply' = [reply EXCEPT ![c] = Service!NoReply]
  /\ UNCHANGED <<local, cacheVars, pool>>

Cancel(c) ==
  /\ ~At(c, "idle")
  /\ ~gone[c]
  /\ gone' = [gone EXCEPT ![c] = TRUE]
  /\ UNCHANGED <<pc, req, local, reply, cacheVars, pool>>

(* handleDOI: any failure but a cancelled context is "no id found".        *)
HandleDOI(c) ==
  /\ At(c, "redirect")
  /\ \/ gone[c] /\ Finish(c, Service!Abandoned)
     \/ ~gone[c] /\ DbFaults /\ Fail(c, 404)
     \/ ~gone[c] /\ ~KnownDoi(req[c].doi) /\ Fail(c, 404)
     \/ /\ ~gone[c]
        /\ KnownDoi(req[c].doi)
        /\ Finish(c, Service!Moved(FirstId(req[c].doi)))
  /\ UNCHANGED <<request, cacheVars, pool>>

-----------------------------------------------------------------------------
(* handleLocalIdentifier, with the numbers of its comments.                *)

Validate(c) ==
  /\ At(c, "validate")
  /\ \/ req[c].isil = BadIsil /\ Fail(c, 400)
     \/ /\ req[c].isil # BadIsil
        /\ Goto(c, IF CacheEnabled THEN "cache" ELSE "resolve")
        /\ UNCHANGED local
  /\ UNCHANGED <<request, cacheVars, pool>>

Tailored(c) == req[c].isil # NoIsil

(* (0) serveFromCache: the cached response as it is, or through the filter. *)
ServeFromCache(c) ==
  /\ At(c, "cache")
  /\ LET i == req[c].id IN
     \/ Cache!Miss(i) /\ Goto(c, "resolve") /\ UNCHANGED local
     \/ Cache!Hit(i) /\ ~Tailored(c) /\ Finish(c, Service!Ok(rows[i]))
     \/ /\ Cache!Hit(i)
        /\ Tailored(c)
        /\ resp' = [resp EXCEPT ![c] = rows[i]]
        /\ docs' = [docs EXCEPT ![c] = Documents(rows[i])]
        /\ Goto(c, "filter")
        /\ UNCHANGED <<outbound, inbound, unasked, ids>>
     \/ CacheFaults /\ Fail(c, 500)
  /\ UNCHANGED <<request, cacheVars, pool>>

(* (1) *)
ResolveId(c) ==
  /\ At(c, "resolve")
  /\ LET i == req[c].id IN
     \/ QueryFails(c, Service!Abandoned)
     \/ ~gone[c] /\ ~KnownId(i) /\ Fail(c, 404)
     \/ /\ ~gone[c]
        /\ KnownId(i)
        /\ resp' = [resp EXCEPT ![c].doi = FirstDoi(i)]
        /\ Goto(c, "edges")
        /\ UNCHANGED <<outbound, inbound, unasked, ids, docs>>
  /\ UNCHANGED <<request, cacheVars, pool>>

(* (2), (3) *)
FindEdges(c) ==
  /\ At(c, "edges")
  /\ LET d == resp[c].doi IN
     \/ QueryFails(c, Service!Abandoned)
     \/ ~gone[c] /\ Related(d) = {} /\ Fail(c, 404)
     \/ /\ ~gone[c]
        /\ Related(d) # {}
        /\ outbound' = [outbound EXCEPT ![c] = Outbound(d)]
        /\ inbound' = [inbound EXCEPT ![c] = Inbound(d)]
        /\ unasked' = [unasked EXCEPT ![c] = Related(d)]
        /\ ids' = [ids EXCEPT ![c] = {}]
        /\ Goto(c, "map")
        /\ UNCHANGED <<docs, resp>>
  /\ UNCHANGED <<request, cacheVars, pool>>

(* The switch of (5) and (6): outbound first, then inbound.                *)
Citing(out, in) == out

(* Mutant: two independent cases. *)
CitedToo(out, in) == in

Cited(out, in) == in \ out

(* mapToLocal sends the DOIs in batches, in the order of a Go set.         *)
(* Mutant: a batch that is just full leaves an empty one for later. *)
LessThanFull(ds) == Cardinality(ds) < BatchSize

LastBatch(ds) == Cardinality(ds) <= BatchSize

FullBatches(ds) == {B \in SUBSET ds : Cardinality(B) = BatchSize}

AskBatch(c, B) ==
  /\ ids' = [ids EXCEPT ![c] = @ \cup MapToLocal(B)]
  /\ unasked' = [unasked EXCEPT ![c] = @ \ B]

(* (4), (5): the error of mapToLocal is wrapped, so a cancelled context is *)
(* not recognised and becomes a failure like any other.  With the answer   *)
(* to the last batch it is known which DOIs have no local id.              *)
MapBack(c) ==
  /\ At(c, "map")
  /\ LET out == outbound[c]
         in == inbound[c]
         ds == unasked[c]
         open == (out \cup in) \ {IdMap[n].v : n \in ids[c] \cup MapToLocal(ds)}
     IN \/ QueryFails(c, Service!Failed(500))
        \/ /\ ~gone[c]
           /\ ~LastBatch(ds)
           /\ \E B \in FullBatches(ds) : AskBatch(c, B)
           /\ UNCHANGED <<pc, reply, outbound, inbound, docs, resp>>
        \/ /\ ~gone[c]
           /\ LastBatch(ds)
           /\ AskBatch(c, ds)
           /\ resp' = [resp EXCEPT ![c] = [@ EXCEPT
                !.unmatchedCiting = Stubs(open \cap Citing(out, in)),
                !.unmatchedCited = Stubs(open \cap Cited(out, in))]]
           /\ Goto(c, "fetch")
           /\ UNCHANGED <<outbound, inbound, docs>>
  /\ UNCHANGED <<request, cacheVars, pool>>

(* Where response r goes to with a document for DOI d.                     *)
AddDocument(r, x, d, out, in) ==
  [r EXCEPT !.citing = IF d \in Citing(out, in) THEN @ \cup {x} ELSE @,
            !.cited = IF d \in Cited(out, in) THEN @ \cup {x} ELSE @]

(* Mutant: any error counts as a missing blob. *)
FetchSkips(c, n) ==
  /\ FetchMayFail(IdMap[n].k)
  /\ ids' = [ids EXCEPT ![c] = @ \ {n}]
  /\ UNCHANGED <<pc, reply, outbound, inbound, unasked, docs, resp>>

(* (6) One turn of the loop over ids.  The loop skips ErrBlobNotFound, but *)
(* a FetchGroup never returns that error: it returns ErrBackendsFailed.    *)
FetchFails(c, n) == FetchMayFail(IdMap[n].k) /\ Fail(c, 500)

FetchSucceeds(c, n) ==
  /\ \E b \in Fetched(IdMap[n].k) :
       resp' = [resp EXCEPT ![c] = AddDocument(@, [row |-> n, src |-> b],
                                     IdMap[n].v, outbound[c], inbound[c])]
  /\ ids' = [ids EXCEPT ![c] = @ \ {n}]
  /\ UNCHANGED <<pc, reply, outbound, inbound, unasked, docs>>

FetchDocument(c) ==
  /\ At(c, "fetch")
  /\ \E n \in ids[c] : FetchFails(c, n) \/ FetchSucceeds(c, n)
  /\ UNCHANGED <<request, cacheVars, pool>>

(* What follows once the response is complete (and stored, if it is).      *)
Deliver(c, r) ==
  /\ resp' = [resp EXCEPT ![c] = r]
  /\ docs' = [docs EXCEPT ![c] = IF Tailored(c) THEN Documents(r) ELSE {}]
  /\ Goto(c, IF Tailored(c) THEN "filter" ELSE "send")
  /\ UNCHANGED <<outbound, inbound, unasked, ids>>

(* Mutant: the institution is filled in before the response is stored. *)
CompleteForInstitution(c) ==
  /\ At(c, "fetch")
  /\ ids[c] = {}
  /\ LET r == UpdateCounts([resp[c] EXCEPT !.institution = req[c].isil]) IN
     \/ /\ CacheEnabled
        /\ resp' = [resp EXCEPT ![c] = r]
        /\ Goto(c, "store")
        /\ UNCHANGED <<outbound, inbound, unasked, ids, docs>>
     \/ Deliver(c, r)
  /\ UNCHANGED <<request, cacheVars, pool>>

(* The loop is done; whether the request was slower than                   *)
(* CacheTriggerDuration is up to the environment.                          *)
Complete(c) ==
  /\ At(c, "fetch")
  /\ ids[c] = {}
  /\ LET r == UpdateCounts(resp[c]) IN
     \/ /\ CacheEnabled
        /\ resp' = [resp EXCEPT ![c] = r]
        /\ Goto(c, "store")
        /\ UNCHANGED <<outbound, inbound, unasked, ids, docs>>
     \/ Deliver(c, r)
  /\ UNCHANGED <<request, cacheVars, pool>>

(* (7) cacheResponse: marks the response as cached, encodes it, stores it. *)
(* A read-only cache is no error.                                          *)
StoreResponse(c) ==
  /\ At(c, "store")
  /\ LET r == [resp[c] EXCEPT !.cached = TRUE] IN
     \/ ~Encodable(r) /\ Fail(c, 500) /\ UNCHANGED cacheVars
     \/ Encodable(r) /\ Cache!Set(req[c].id, r) /\ Deliver(c, r)
     \/ Encodable(r) /\ Cache!SetReadOnly /\ Deliver(c, r)
     \/ Encodable(r) /\ Cache!StatementFails /\ Fail(c, 500)
  /\ UNCHANGED <<request, pool>>

(***************************************************************************)
(* (8) applyInstitutionFilter, one document at a time: take a snippet from *)
(* the pool or a new one, decode the document into it, look for the        *)
(* institution, put the snippet back.  Nobody clears a snippet, so a       *)
(* document without the field is judged by what is left in it.  A decoder  *)
(* that fails may have filled the snippet before.  Other snippets may hold *)
(* the same as the one taken: p is what the pool has without it.           *)
(***************************************************************************)
(* Mutant: values are appended to what the snippet has. *)
DecodeOnto(old, blob) == IF blob = NoField THEN old ELSE old \cup blob

Decode(old, blob) == IF blob = NoField THEN old ELSE blob

Put(p, s) == IF Cardinality(p \cup {s}) <= PoolSize THEN p \cup {s} ELSE p

MoveToUnmatched(r, x) ==
  [r EXCEPT !.citing = @ \ {x},
            !.cited = @ \ {x},
            !.unmatchedCiting = IF x \in r.citing THEN @ \cup {x} ELSE @,
            !.unmatchedCited = IF x \in r.cited THEN @ \cup {x} ELSE @]

(* Mutant: a document that cannot be decoded is skipped. *)
SkipDocument(c, x, p) ==
  /\ BlobOf(x) \in BadBlob
  /\ pool' = Put(p, {})
  /\ docs' = [docs EXCEPT ![c] = @ \ {x}]
  /\ UNCHANGED <<pc, reply, outbound, inbound, unasked, ids, resp>>

RejectDocument(c, x, p) ==
  /\ BlobOf(x) \in BadBlob
  /\ \E left \in Institutions : pool' = Put(p, left)
  /\ Fail(c, 500)

JudgeDocument(c, x, s, p) ==
  /\ BlobOf(x) \notin BadBlob
  /\ LET v == Decode(s, BlobOf(x))
     IN /\ resp' = [resp EXCEPT ![c] = IF req[c].isil \in v THEN @
                                       ELSE MoveToUnmatched(@, x)]
        /\ pool' = Put(p, v)
  /\ docs' = [docs EXCEPT ![c] = @ \ {x}]
  /\ UNCHANGED <<pc, reply, outbound, inbound, unasked, ids>>

FilterDocument(c) ==
  /\ At(c, "filter")
  /\ \E x \in docs[c], s \in pool \cup {{}} : \E p \in {pool, pool \ {s}} :
       /\ x \in resp[c].cited => docs[c] \cap resp[c].citing = {}
       /\ RejectDocument(c, x, p) \/ JudgeDocument(c, x, s, p)
  /\ UNCHANGED <<request, cacheVars>>

(* Mutant: the counters are those from before the filter. *)
KeepCounters(c) ==
  /\ At(c, "filter")
  /\ docs[c] = {}
  /\ resp' = [resp EXCEPT ![c] = [@ EXCEPT !.institution = req[c].isil]]
  /\ Goto(c, "send")
  /\ UNCHANGED <<request, outbound, inbound, unasked, ids, docs, cacheVars, pool>>

FinishFilter(c) ==
  /\ At(c, "filter")
  /\ docs[c] = {}
  /\ resp' = [resp EXCEPT ![c] = UpdateCounts([@ EXCEPT !.institution = req[c].isil])]
  /\ Goto(c, "send")
  /\ UNCHANGED <<request, outbound, inbound, unasked, ids, docs, cacheVars, pool>>

(* (9) *)
Send(c) ==
  /\ At(c, "send")
  /\ \/ ~Encodable(resp[c]) /\ Fail(c, 500)
     \/ Encodable(resp[c]) /\ Finish(c, Service!Ok(resp[c]))
  /\ UNCHANGED <<request, cacheVars, pool>>

-----------------------------------------------------------------------------
(* handleCachePurge, the size watcher, and the garbage collector, which    *)
(* may empty a sync.Pool at any time.                                      *)
Purge == CacheEnabled /\ Cache!Flush /\ UNCHANGED <<pc, request, local, reply, pool>>

WatchCache ==
  /\ CacheEnabled
  /\ Cache!Tick \/ Cache!SwitchToReadOnly \/ Cache!StatFails
  /\ UNCHANGED <<pc, request, local, reply, pool>>

CollectPool ==
  /\ pool # {}
  /\ pool' = {}
  /\ UNCHANGED <<pc, request, local, reply, cacheVars>>

Handle(c) ==
  \/ HandleDOI(c)
  \/ Validate(c)
  \/ ServeFromCache(c)
  \/ ResolveId(c)
  \/ FindEdges(c)
  \/ MapBack(c)
  \/ FetchDocument(c)
  \/ Complete(c)
  \/ StoreResponse(c)
  \/ FilterDocument(c)
  \/ FinishFilter(c)
  \/ Send(c)

Next ==
  \/ \E c \in Conn : \/ \E q \in Requests : Receive(c, q)
                     \/ Cancel(c)
                     \/ Handle(c)
  \/ Purge
  \/ WatchCache
  \/ CollectPool

Spec == Init /\ [][Next]_vars

(* Every goroutine is scheduled, those of the handlers and of the watcher; *)
(* nothing makes clients send or purge.                                    *)
KeepWatch == CacheEnabled /\ Cache!Watch /\ UNCHANGED <<pc, request, local, reply, pool>>
FairSpec == Spec /\ WF_vars(KeepWatch) /\ \A c \in Conn : WF_vars(Handle(c))

-----------------------------------------------------------------------------
(* What is in the cache under an id is the complete and unfiltered answer  *)
(* for that id, although it may be stored on the way to a reply for one    *)
(* institution, by several requests at once, after the client has gone,    *)
(* or with backends failing in between (server.go:384-414, 574-588).       *)
CacheSound ==
  \A i \in Id : Cache!Hit(i) => /\ Answerable(i)
                                /\ IsAnswer(rows[i], i, NoIsil)
                                /\ Encodable(rows[i])

(* How far a request has come, up to the point where its response may be   *)
(* stored: the rows found and the DOIs still to be asked for, or the       *)
(* partial response and the rows left to fetch, always make up the         *)
(* complete answer, so no batch (none is empty), failing backend, early    *)
(* exit or other connection can make a document drop out unnoticed         *)
(* (server.go:471-580, 656-699).                                           *)
EdgesKnown(c) ==
  LET d == FirstDoi(req[c].id)
  IN Answerable(req[c].id) /\ outbound[c] = Outbound(d) /\ inbound[c] = Inbound(d)

Progress(c) ==
  LET i == req[c].id
      fresh == [EmptyResponse EXCEPT !.doi = FirstDoi(i)]
  IN /\ pc[c] \in {"idle", "redirect", "validate", "cache", "resolve"} => resp[c] = EmptyResponse
     /\ pc[c] = "edges" => KnownId(i) /\ resp[c] = fresh
     /\ pc[c] = "map" => /\ EdgesKnown(c)
                         /\ resp[c] = fresh
                         /\ unasked[c] # {}
                         /\ unasked[c] \subseteq Related(FirstDoi(i))
                         /\ ids[c] = MapToLocal(Related(FirstDoi(i)) \ unasked[c])
     /\ pc[c] = "fetch" => /\ EdgesKnown(c)
                           /\ PartialAnswer(resp[c], i, ids[c])
                           /\ resp[c].institution = NoIsil
     /\ pc[c] = "store" => Answerable(i) /\ IsAnswer(resp[c], i, NoIsil)

NothingDropsOut == \A c \in Conn : Progress(c)

(* Cached or not, filtered or not, a reply says what the databases say,    *)
(* and a request fails only when there is a reason for it: the server      *)
(* implements the service without a cache (server.go:417-597).             *)
ServiceRefinement == Service!ServiceSpec

(* Every request is answered or abandoned in the end, whatever other       *)
(* connections, the purge and the watcher do (server.go:417-597).          *)
Answered == \A c \in Conn : ~At(c, "idle") ~> At(c, "idle")

(* The promises of the cache (see there) hold with the handlers that set,  *)
(* purge and fail in between, and the watcher in the background.           *)
ReadOnlyOnlyOverLimit == Cache!ReadOnlyOnlyOverLimit
ReadOnlyIsFinal == Cache!ReadOnlyIsFinal
LimitEnforced == Cache!LimitEnforced

(* A document that is in no index database is left out of the reply rather *)
(* than failing the request, as the handling of ErrBlobNotFound intends    *)
(* (server.go:553-556, fetcher.go:12-14, and labed's help text: "Each      *)
(* database may be updated separately", cmd/labed/main.go:62).             *)
MissingDocumentIsSkipped ==
  \A c \in Conn : reply[c].status = 500 =>
    \/ gone[c] \/ DbFaults \/ CacheFaults \/ FaultyBackends # {}
    \/ Service!SomeBlob(req[c].id, BadBlob)

(* A reply tailored to an institution lists only documents that it holds   *)
(* "as found in the index data" (server.go:142-149, 442-444).              *)
FilterByIndexData ==
  \A c \in Conn : reply[c].status = 200 /\ Tailored(c) =>
    \A x \in Documents(reply[c].body) : req[c].isil \in Holdings(x)
=============================================================================
