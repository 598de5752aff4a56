--------------------------- MODULE LabedServerProofs ---------------------------
(***************************************************************************)
(* Proofs about LabedServer for any databases, any number of connections,  *)
(* any faults and any limit of the cache.                                  *)
(***************************************************************************)
EXTENDS LabedServer, FiniteSetTheorems, TLAPS

-----------------------------------------------------------------------------
(* Facts about the data.                                                   *)

(* There are finitely many entries that a reply may list. *)
LEMMA EntryFinite == IsFiniteSet(Entry)
<1> DEFINE R == 1 .. Len(IdMap)
           B == 1 .. Len(Backends)
           P == [row : R, src : B]
           f == [x \in R \X B |-> [row |-> x[1], src |-> x[2]]]
           g == [d \in Doi |-> [doi |-> d]]
<1>1. Row = R /\ Backend = B /\ Len(IdMap) \in Nat /\ Len(Backends) \in Nat
  BY DataAssumption DEF Row, Backend
<1>2. IsFiniteSet(R) /\ IsFiniteSet(B)
  BY <1>1, FS_Interval
<1>3. IsFiniteSet(R \X B)
  BY <1>2, FS_Product
<1>4. f \in Surjection(R \X B, P)
  <2>1. f \in [R \X B -> P]
    OBVIOUS
  <2>2. ASSUME NEW p \in P
        PROVE  \E x \in R \X B : f[x] = p
    <3>1. <<p.row, p.src>> \in R \X B /\ f[<<p.row, p.src>>] = p
      OBVIOUS
    <3> QED BY <3>1
  <2> QED BY <2>1, <2>2 DEF Surjection
<1>5. IsFiniteSet(P)
  BY <1>3, <1>4, FS_Surjection
<1>6. g \in Surjection(Doi, Stub)
  <2>1. g \in [Doi -> Stub]
    BY DEF Stub
  <2>2. ASSUME NEW p \in Stub
        PROVE  \E x \in Doi : g[x] = p
    BY <2>2 DEF Stub
  <2> QED BY <2>1, <2>2 DEF Surjection
<1>7. IsFiniteSet(Stub)
  BY <1>6, FS_Surjection, DataAssumption
<1>8. Doc \subseteq P
  BY <1>1 DEF Doc
<1>9. IsFiniteSet(Doc)
  BY <1>5, <1>8, FS_Subset
<1> QED
  BY <1>7, <1>9, FS_Union DEF Entry

(* Counting the lists of a response gives counters. *)
LEMMA CountersType ==
  ASSUME NEW r \in Response
  PROVE  UpdateCounts(r) \in Response
<1>1. \A T \in SUBSET Entry : Cardinality(T) \in Nat
  BY EntryFinite, FS_Subset, FS_CardinalityType
<1>2. /\ r.citing \in SUBSET Entry /\ r.cited \in SUBSET Entry
      /\ r.unmatchedCiting \in SUBSET Entry /\ r.unmatchedCited \in SUBSET Entry
  BY DEF Response, Entry
<1>3. CountsOf(r) \in Counters
  BY <1>1, <1>2 DEF CountsOf, Counters
<1> QED
  BY <1>3 DEF UpdateCounts, Response

LEMMA EmptyResponseType == EmptyResponse \in Response
BY DEF EmptyResponse, ZeroCounters, Counters, Response

(* The rows and documents that the handler deals with exist. *)
LEMMA DataTypes ==
  /\ \A i : KnownId(i) => FirstDoi(i) \in Doi
  /\ \A d : KnownDoi(d) => FirstId(d) \in Id
  /\ \A d : Outbound(d) \subseteq Doi /\ Inbound(d) \subseteq Doi
  /\ \A ds \in SUBSET Doi : MapToLocal(ds) \subseteq Row /\ Unmatched(ds) \subseteq Doi
  /\ \A n \in Row : IdMap[n].v \in Doi /\ IdMap[n].k \in Id
  /\ \A x \in Doc : BlobOf(x) \in Blob
<1>1. \A n \in Row : IdMap[n] \in IdRow
  BY DataAssumption DEF Row
<1>2. ASSUME NEW i, KnownId(i) PROVE FirstDoi(i) \in Doi
  <2>1. (CHOOSE n \in Row : IdMap[n].k = i) \in Row
    BY <1>2 DEF KnownId
  <2> QED BY <1>1, <2>1 DEF FirstDoi, IdRow
<1>3. ASSUME NEW d, KnownDoi(d) PROVE FirstId(d) \in Id
  <2>1. (CHOOSE n \in Row : IdMap[n].v = d) \in Row
    BY <1>3 DEF KnownDoi
  <2> QED BY <1>1, <2>1 DEF FirstId, IdRow
<1>4. \A d : Outbound(d) \subseteq Doi /\ Inbound(d) \subseteq Doi
  BY DataAssumption DEF Outbound, Inbound, OciRow
<1>5. \A ds \in SUBSET Doi : MapToLocal(ds) \subseteq Row /\ Unmatched(ds) \subseteq Doi
  BY DEF MapToLocal, Unmatched
<1>6. ASSUME NEW x \in Doc PROVE BlobOf(x) \in Blob
  <2>1. /\ x.src \in Backend
        /\ IdMap[x.row].k \in DOMAIN Backends[x.src]
    BY <1>6 DEF Doc, Holders
  <2>2. Backends[x.src] \in UNION {[S -> Blob] : S \in SUBSET Id}
    BY <2>1, DataAssumption DEF Backend
  <2> QED BY <2>1, <2>2 DEF BlobOf
<1> QED BY <1>1, <1>2, <1>3, <1>4, <1>5, <1>6 DEF IdRow

-----------------------------------------------------------------------------
(* Type correctness.                                                       *)

(* The service speaks of the same responses. *)
LEMMA SameResponse == Service!Response = Response
BY DEF Response, Doc, Row, Backend, Holders, Entry, Stub, Counters,
   Service!Response, Service!Doc, Service!Row, Service!Backend, Service!Holders,
   Service!Entry, Service!Stub, Service!Counters

(* The replies without a body. *)
LEMMA Replies ==
  /\ \A s \in {0, 400, 404, 499, 500} : Service!Failed(s) \in Service!Reply
  /\ Service!NoReply \in Service!Reply
  /\ Service!Abandoned \in Service!Reply
  /\ \A i \in Id : Service!Moved(i) \in Service!Reply
  /\ \A r \in Response : Service!Ok(r) \in Service!Reply
BY SameResponse DEF Service!Failed, Service!NoReply, Service!Abandoned, Service!Moved,
   Service!Ok, Service!Reply

LEMMA InitType == Init => TypeOK
<1> SUFFICES ASSUME Init PROVE TypeOK
  OBVIOUS
<1>1. resp \in [Conn -> Response] /\ reply \in [Conn -> Service!Reply]
  BY EmptyResponseType, Replies DEF Init
<1>2. Cache!CacheTypeOK
  BY DEF Init, Cache!CacheInit, Cache!CacheTypeOK
<1> QED BY <1>1, <1>2 DEF Init, TypeOK, Label, Routed

(* What the steps that end a request leave behind. *)
LEMMA FinishType ==
  ASSUME TypeOK, NEW c \in Conn, NEW r \in Service!Reply, Finish(c, r), req' = req
  PROVE  /\ pc' \in [Conn -> Label]
         /\ Routed'
         /\ outbound' \in [Conn -> SUBSET Doi]
         /\ inbound' \in [Conn -> SUBSET Doi]
         /\ unasked' \in [Conn -> SUBSET Doi]
         /\ ids' \in [Conn -> SUBSET Row]
         /\ docs' \in [Conn -> SUBSET Doc]
         /\ resp' \in [Conn -> Response]
         /\ reply' \in [Conn -> Service!Reply]
BY EmptyResponseType DEF Finish, TypeOK, Label, Routed

LEMMA GotoType ==
  ASSUME TypeOK, NEW c \in Conn, NEW l \in Label \ {"redirect"}, Goto(c, l), req' = req,
         pc[c] \notin {"idle", "redirect"}, req[c].isil # BadIsil
  PROVE  pc' \in [Conn -> Label] /\ reply' \in [Conn -> Service!Reply] /\ Routed'
BY DEF TypeOK, Goto, Routed

(* Past the validation there is a valid ISIL or none. *)
LEMMA Validated ==
  ASSUME TypeOK, NEW c \in Conn, pc[c] \notin {"idle", "redirect", "validate"}
  PROVE  req[c].id \in Id /\ req[c].isil \in Isil \cup {NoIsil} /\ req[c].isil # BadIsil
BY DEF TypeOK, Routed, Service!Lookup

LEMMA ClientType ==
  ASSUME TypeOK, NEW c \in Conn, Cancel(c) \/ \E q \in Requests : Receive(c, q)
  PROVE  TypeOK'
<1>1. CASE Cancel(c)
  BY <1>1 DEF TypeOK, Cancel, local, cacheVars, Cache!CacheTypeOK, Routed
<1>2. ASSUME NEW q \in Requests, Receive(c, q) PROVE TypeOK'
  <2>1. q \in Service!Lookup \cup Service!Redirection
    BY ServerAssumption DEF Service!Request
  <2>2. /\ q.kind = "doi" => q \in Service!Redirection
        /\ q.kind # "doi" => q \in Service!Lookup
    BY <2>1 DEF Service!Lookup, Service!Redirection
  <2>3. Routed'
    BY <1>2, <2>2 DEF TypeOK, Receive, Routed
  <2> QED
    BY <1>2, <2>3, Replies DEF TypeOK, Receive, Label, local, cacheVars, Cache!CacheTypeOK
<1> QED BY <1>1, <1>2

(* Steps that share nothing but the databases. *)
LEMMA LookupType ==
  ASSUME TypeOK, NEW c \in Conn,
         \/ HandleDOI(c) \/ Validate(c) \/ ServeFromCache(c) \/ ResolveId(c)
         \/ FindEdges(c) \/ MapBack(c)
  PROVE  TypeOK'
<1> USE DEF cacheVars, request, local, At
<1>1. /\ req' = req /\ req' \in [Conn -> Requests] /\ gone' \in [Conn -> BOOLEAN]
      /\ Cache!CacheTypeOK' /\ pool' \subseteq Institutions
  BY DEF HandleDOI, Validate, ServeFromCache, ResolveId, FindEdges, MapBack, TypeOK,
     Cache!CacheTypeOK
<1>2. CASE \E r \in Service!Reply : Finish(c, r)
  BY <1>1, <1>2, FinishType DEF TypeOK
<1>3. ASSUME NEW onCancel \in Service!Reply, QueryFails(c, onCancel)
      PROVE  \E r \in Service!Reply : Finish(c, r)
  BY <1>3, Replies DEF QueryFails, Fail
<1>4. CASE HandleDOI(c)
  <2>1. \E r \in Service!Reply : Finish(c, r)
    BY <1>4, Replies, DataTypes DEF HandleDOI, Fail
  <2> QED BY <1>2, <2>1
<1>5. CASE Validate(c)
  <2>1. CASE Fail(c, 400)
    BY <1>2, <2>1, Replies DEF Fail
  <2>2. CASE req[c].isil # BadIsil /\ UNCHANGED local /\ Goto(c, IF CacheEnabled THEN "cache" ELSE "resolve")
    <3>1. (IF CacheEnabled THEN "cache" ELSE "resolve") \in Label \ {"redirect"}
      BY DEF Label
    <3> QED BY <1>1, <1>5, <2>2, <3>1, GotoType DEF TypeOK, Validate
  <2> QED BY <1>5, <2>1, <2>2 DEF Validate
<1>6. CASE ServeFromCache(c)
  <2> DEFINE i == req[c].id
  <2>1. i \in Id
    BY <1>6, Validated DEF ServeFromCache
  <2>2. CASE Goto(c, "resolve") /\ UNCHANGED local
    BY <1>1, <1>6, <2>2, Validated, GotoType DEF TypeOK, Label, ServeFromCache
  <2>3. Cache!Hit(i) => rows[i] \in Response
    BY <2>1 DEF Cache!Hit, TypeOK, Cache!CacheTypeOK
  <2>4. CASE Cache!Hit(i) /\ Finish(c, Service!Ok(rows[i]))
    BY <1>2, <2>3, <2>4, Replies
  <2>5. CASE /\ Cache!Hit(i)
             /\ resp' = [resp EXCEPT ![c] = rows[i]]
             /\ docs' = [docs EXCEPT ![c] = Documents(rows[i])]
             /\ Goto(c, "filter")
             /\ UNCHANGED <<outbound, inbound, unasked, ids>>
    <3>1. Documents(rows[i]) \subseteq Doc
      BY <2>3, <2>5 DEF Documents, Response
    <3> QED
      BY <1>1, <1>6, <2>3, <2>5, <3>1, Validated, GotoType DEF TypeOK, Label, ServeFromCache
  <2>6. CASE Fail(c, 500)
    BY <1>2, <2>6, Replies DEF Fail
  <2> QED BY <1>6, <2>2, <2>4, <2>5, <2>6 DEF ServeFromCache
<1>7. CASE ResolveId(c)
  <2>1. CASE QueryFails(c, Service!Abandoned) \/ Fail(c, 404)
    BY <1>2, <1>3, <2>1, Replies DEF Fail
  <2>2. CASE /\ KnownId(req[c].id)
             /\ resp' = [resp EXCEPT ![c].doi = FirstDoi(req[c].id)]
             /\ Goto(c, "edges")
             /\ UNCHANGED <<outbound, inbound, unasked, ids, docs>>
    <3>1. resp' \in [Conn -> Response]
      BY <2>2, DataTypes DEF TypeOK, Response
    <3> QED BY <1>1, <1>7, <2>2, <3>1, Validated, GotoType DEF TypeOK, Label, ResolveId
  <2> QED BY <1>7, <2>1, <2>2 DEF ResolveId
<1>8. CASE FindEdges(c)
  <2> DEFINE d == resp[c].doi
  <2>1. CASE QueryFails(c, Service!Abandoned) \/ Fail(c, 404)
    BY <1>2, <1>3, <2>1, Replies DEF Fail
  <2>2. CASE /\ outbound' = [outbound EXCEPT ![c] = Outbound(d)]
             /\ inbound' = [inbound EXCEPT ![c] = Inbound(d)]
             /\ unasked' = [unasked EXCEPT ![c] = Related(d)]
             /\ ids' = [ids EXCEPT ![c] = {}]
             /\ Goto(c, "map")
             /\ UNCHANGED <<docs, resp>>
    <3>1. Outbound(d) \subseteq Doi /\ Inbound(d) \subseteq Doi /\ Related(d) \subseteq Doi
      BY DataTypes DEF Related
    <3> QED BY <1>1, <1>8, <2>2, <3>1, Validated, GotoType DEF TypeOK, Label, FindEdges
  <2> QED BY <1>8, <2>1, <2>2 DEF FindEdges
<1>9. CASE MapBack(c)
  <2> DEFINE out == outbound[c]
             in == inbound[c]
             ds == unasked[c]
             open == (out \cup in) \ {IdMap[n].v : n \in ids[c] \cup MapToLocal(ds)}
             A == open \cap Citing(out, in)
             B == open \cap Cited(out, in)
  <2>1. CASE QueryFails(c, Service!Failed(500))
    BY <1>2, <1>3, <2>1, Replies
  <2>2. out \cup in \in SUBSET Doi /\ ds \in SUBSET Doi
    BY DEF TypeOK
  <2>3. ASSUME NEW E \in SUBSET ds, AskBatch(c, E)
        PROVE  ids' \in [Conn -> SUBSET Row] /\ unasked' \in [Conn -> SUBSET Doi]
    <3>1. MapToLocal(E) \subseteq Row
      BY <2>2, DataTypes
    <3> QED BY <2>3, <3>1 DEF AskBatch, TypeOK
  <2>4. CASE /\ \E E \in FullBatches(ds) : AskBatch(c, E)
             /\ UNCHANGED <<pc, reply, outbound, inbound, docs, resp>>
    <3>1. ids' \in [Conn -> SUBSET Row] /\ unasked' \in [Conn -> SUBSET Doi]
      BY <2>3, <2>4 DEF FullBatches
    <3>2. Routed'
      BY <1>1, <2>4 DEF TypeOK, Routed
    <3> QED BY <1>1, <2>4, <3>1, <3>2 DEF TypeOK
  <2>5. CASE /\ AskBatch(c, ds)
             /\ resp' = [resp EXCEPT ![c] = [@ EXCEPT !.unmatchedCiting = Stubs(A),
                                                     !.unmatchedCited = Stubs(B)]]
             /\ Goto(c, "fetch")
             /\ UNCHANGED <<outbound, inbound, docs>>
    <3>1. ids' \in [Conn -> SUBSET Row] /\ unasked' \in [Conn -> SUBSET Doi]
      BY <2>3, <2>5
    <3>2. Stubs(A) \subseteq Entry /\ Stubs(B) \subseteq Entry
      BY <2>2 DEF Stubs, Entry, Stub
    <3>3. [resp[c] EXCEPT !.unmatchedCiting = Stubs(A), !.unmatchedCited = Stubs(B)]
            \in Response
      BY <3>2 DEF TypeOK, Response
    <3>4. resp' \in [Conn -> Response]
      BY <2>5, <3>3 DEF TypeOK
    <3> QED BY <1>1, <1>9, <2>5, <3>1, <3>4, Validated, GotoType DEF TypeOK, Label, MapBack
  <2> QED BY <1>9, <2>1, <2>4, <2>5 DEF MapBack
<1> QED BY <1>4, <1>5, <1>6, <1>7, <1>8, <1>9

(* Steps that fetch documents, store, filter and send. *)
LEMMA DeliverType ==
  ASSUME TypeOK, NEW c \in Conn, NEW r \in Response, Deliver(c, r), req' = req,
         pc[c] \notin {"idle", "redirect"}, req[c].isil # BadIsil
  PROVE  /\ pc' \in [Conn -> Label] /\ reply' \in [Conn -> Service!Reply] /\ Routed'
         /\ resp' \in [Conn -> Response] /\ docs' \in [Conn -> SUBSET Doc]
         /\ UNCHANGED <<outbound, inbound, unasked, ids>>
<1>1. (IF Tailored(c) THEN "filter" ELSE "send") \in Label \ {"redirect"}
  BY DEF Label
<1>2. Documents(r) \subseteq Doc
  BY DEF Documents, Response
<1> QED BY <1>1, <1>2, GotoType DEF Deliver, TypeOK

LEMMA FetchType ==
  ASSUME TypeOK, NEW c \in Conn, FetchDocument(c)
  PROVE  TypeOK'
<1> USE DEF cacheVars, request, At
<1>1. /\ req' = req /\ req' \in [Conn -> Requests] /\ gone' \in [Conn -> BOOLEAN]
      /\ Cache!CacheTypeOK' /\ pool' \subseteq Institutions
  BY DEF FetchDocument, TypeOK, Cache!CacheTypeOK
<1>2. PICK n \in ids[c] : FetchFails(c, n) \/ FetchSucceeds(c, n)
  BY DEF FetchDocument
<1>3. CASE Fail(c, 500)
  BY <1>1, <1>3, FinishType, Replies DEF Fail, TypeOK
<1>4. ASSUME NEW b \in Fetched(IdMap[n].k),
             resp' = [resp EXCEPT ![c] = AddDocument(@, [row |-> n, src |-> b],
                                           IdMap[n].v, outbound[c], inbound[c])],
             ids' = [ids EXCEPT ![c] = @ \ {n}],
             UNCHANGED <<pc, reply, outbound, inbound, unasked, docs>>
      PROVE  TypeOK'
  <2> DEFINE x == [row |-> n, src |-> b]
  <2>1. n \in Row
    BY <1>2 DEF TypeOK
  <2>2. x \in Doc
    BY <2>1 DEF Doc, Fetched, Holders
  <2>3. AddDocument(resp[c], x, IdMap[n].v, outbound[c], inbound[c]) \in Response
    BY <2>2 DEF AddDocument, Response, TypeOK
  <2>4. Routed'
    BY <1>1, <1>4 DEF TypeOK, Routed
  <2> QED BY <1>1, <1>4, <2>3, <2>4 DEF TypeOK
<1> QED BY <1>2, <1>3, <1>4 DEF FetchFails, FetchSucceeds

LEMMA CompleteType ==
  ASSUME TypeOK, NEW c \in Conn, Complete(c)
  PROVE  TypeOK'
<1> USE DEF cacheVars, request, At
<1>1. /\ req' = req /\ req' \in [Conn -> Requests] /\ gone' \in [Conn -> BOOLEAN]
      /\ Cache!CacheTypeOK' /\ pool' \subseteq Institutions
  BY DEF Complete, TypeOK, Cache!CacheTypeOK
<1>2. UpdateCounts(resp[c]) \in Response
  BY CountersType DEF TypeOK
<1>3. CASE Deliver(c, UpdateCounts(resp[c]))
  BY <1>1, <1>2, <1>3, Validated, DeliverType DEF TypeOK, Complete
<1>4. CASE /\ resp' = [resp EXCEPT ![c] = UpdateCounts(resp[c])]
           /\ Goto(c, "store")
           /\ UNCHANGED <<outbound, inbound, unasked, ids, docs>>
  BY <1>1, <1>2, <1>4, Validated, GotoType DEF TypeOK, Complete, Label
<1> QED BY <1>3, <1>4 DEF Complete

(* The file never shrinks. *)
LEMMA GrowType ==
  ASSUME NEW size \in Nat, NEW t
  PROVE  Cache!Grow(size, t) \in Nat /\ Cache!Grow(size, t) >= size
<1>1. IsFiniteSet(Cache!Keys(t))
  BY DataAssumption, FS_Subset DEF Cache!Keys
<1>2. Cardinality(Cache!Keys(t)) \in Nat
  BY <1>1, FS_CardinalityType
<1>3. Cache!Cardinality(Cache!Keys(t)) = Cardinality(Cache!Keys(t))
  BY DEF Cache!Cardinality, Cardinality
<1> QED BY <1>2, <1>3 DEF Cache!Grow

LEMMA StoreType ==
  ASSUME TypeOK, NEW c \in Conn, StoreResponse(c)
  PROVE  TypeOK'
<1> USE DEF request, At
<1> DEFINE r == [resp[c] EXCEPT !.cached = TRUE]
<1>1. /\ req' = req /\ req' \in [Conn -> Requests] /\ gone' \in [Conn -> BOOLEAN]
      /\ pool' \subseteq Institutions
  BY DEF StoreResponse, TypeOK
<1>2. r \in Response
  BY DEF TypeOK, Response
<1>3. req[c].id \in Id
  BY Validated DEF StoreResponse
<1>4. Cache!CacheTypeOK'
  <2>1. CASE UNCHANGED <<rows, fileSize, readOnly, watcher>>
    BY <2>1 DEF TypeOK, Cache!CacheTypeOK
  <2>2. CASE Cache!Set(req[c].id, r)
    BY <1>2, <2>2, GrowType DEF Cache!Set, TypeOK, Cache!CacheTypeOK
  <2> QED BY <2>1, <2>2
        DEF StoreResponse, cacheVars, Cache!SetReadOnly, Cache!StatementFails, Cache!cacheVars
<1>5. CASE Fail(c, 500)
  BY <1>1, <1>4, <1>5, FinishType, Replies DEF Fail, TypeOK
<1>6. CASE Deliver(c, r)
  BY <1>1, <1>2, <1>4, <1>6, Validated, DeliverType DEF TypeOK, StoreResponse
<1> QED BY <1>5, <1>6 DEF StoreResponse

LEMMA MoveType ==
  ASSUME NEW r \in Response, NEW x \in Doc
  PROVE  MoveToUnmatched(r, x) \in Response
<1>1. /\ r.citing \ {x} \subseteq Doc /\ r.cited \ {x} \subseteq Doc
      /\ r.unmatchedCiting \cup {x} \subseteq Entry /\ r.unmatchedCiting \subseteq Entry
      /\ r.unmatchedCited \cup {x} \subseteq Entry /\ r.unmatchedCited \subseteq Entry
  BY DEF Response, Entry
<1> QED BY <1>1 DEF MoveToUnmatched, Response

LEMMA FilterType ==
  ASSUME TypeOK, NEW c \in Conn, FilterDocument(c)
  PROVE  TypeOK'
<1> USE DEF cacheVars, request, At
<1>1. /\ req' = req /\ req' \in [Conn -> Requests] /\ gone' \in [Conn -> BOOLEAN]
      /\ Cache!CacheTypeOK'
  BY DEF FilterDocument, TypeOK, Cache!CacheTypeOK
<1>2. PICK x \in docs[c], s \in pool \cup {{}} : \E p \in {pool, pool \ {s}} :
        RejectDocument(c, x, p) \/ JudgeDocument(c, x, s, p)
  BY DEF FilterDocument
<1>3. \A p \in {pool, pool \ {s}}, v \in Institutions : Put(p, v) \subseteq Institutions
  BY DEF Put, TypeOK
<1>4. x \in Doc /\ BlobOf(x) \in Blob
  BY <1>2, DataTypes DEF TypeOK
<1>5. BlobOf(x) \notin BadBlob => Decode(s, BlobOf(x)) \in Institutions
  BY <1>4 DEF Decode, Blob, Institutions, TypeOK
<1>6. pool' \subseteq Institutions
  BY <1>2, <1>3, <1>5 DEF RejectDocument, JudgeDocument
<1>7. CASE Fail(c, 500)
  BY <1>1, <1>6, <1>7, FinishType, Replies DEF Fail, TypeOK
<1>8. CASE /\ \/ resp' = [resp EXCEPT ![c] = resp[c]]
              \/ resp' = [resp EXCEPT ![c] = MoveToUnmatched(resp[c], x)]
           /\ docs' = [docs EXCEPT ![c] = @ \ {x}]
           /\ UNCHANGED <<pc, reply, outbound, inbound, unasked, ids>>
  <2>1. MoveToUnmatched(resp[c], x) \in Response
    <3>1. resp[c] \in Response
      BY DEF TypeOK
    <3> QED BY <1>4, <3>1, MoveType
  <2>2. Routed'
    BY <1>1, <1>8 DEF TypeOK, Routed
  <2> QED BY <1>1, <1>6, <1>8, <2>1, <2>2 DEF TypeOK
<1> QED BY <1>2, <1>7, <1>8 DEF RejectDocument, JudgeDocument

LEMMA FinishFilterType ==
  ASSUME TypeOK, NEW c \in Conn, FinishFilter(c)
  PROVE  TypeOK'
<1> USE DEF cacheVars, request, At
<1> DEFINE r == [resp[c] EXCEPT !.institution = req[c].isil]
<1>1. req[c].isil \in Isil \cup {NoIsil}
  BY Validated DEF FinishFilter
<1>2. UpdateCounts(r) \in Response
  <2>1. r \in Response
    BY <1>1 DEF TypeOK, Response
  <2> QED BY <2>1, CountersType
<1>3. /\ req' = req /\ req' \in [Conn -> Requests] /\ gone' \in [Conn -> BOOLEAN]
      /\ Cache!CacheTypeOK' /\ pool' \subseteq Institutions
  BY DEF FinishFilter, TypeOK, Cache!CacheTypeOK
<1>4. /\ resp' = [resp EXCEPT ![c] = UpdateCounts(r)]
      /\ Goto(c, "send")
      /\ UNCHANGED <<outbound, inbound, unasked, ids, docs>>
  BY DEF FinishFilter
<1> QED
  BY <1>2, <1>3, <1>4, Validated, GotoType DEF FinishFilter, TypeOK, Label

LEMMA SendType ==
  ASSUME TypeOK, NEW c \in Conn, Send(c)
  PROVE  TypeOK'
<1> USE DEF cacheVars, request, At
<1>1. /\ req' = req /\ req' \in [Conn -> Requests] /\ gone' \in [Conn -> BOOLEAN]
      /\ Cache!CacheTypeOK' /\ pool' \subseteq Institutions
  BY DEF Send, TypeOK, Cache!CacheTypeOK
<1>2. \E r \in Service!Reply : Finish(c, r)
  BY Replies DEF Send, Fail, TypeOK
<1> QED BY <1>1, <1>2, FinishType DEF TypeOK

(* Steps of the cache and of the garbage collector. *)
LEMMA BackgroundType ==
  ASSUME TypeOK, Purge \/ WatchCache \/ CollectPool
  PROVE  TypeOK'
<1> USE DEF cacheVars, request, local, TypeOK, Routed, Cache!CacheTypeOK
<1>1. CASE Purge
  BY <1>1 DEF Purge, Cache!Flush
<1>2. CASE WatchCache
  BY <1>2 DEF WatchCache, Cache!Tick, Cache!SwitchToReadOnly, Cache!StatFails
<1>3. CASE CollectPool
  BY <1>3 DEF CollectPool
<1> QED BY <1>1, <1>2, <1>3

LEMMA StepType == TypeOK /\ [Next]_vars => TypeOK'
<1> SUFFICES ASSUME TypeOK, [Next]_vars PROVE TypeOK'
  OBVIOUS
<1>1. CASE UNCHANGED vars
  BY <1>1 DEF vars, cacheVars, request, local, TypeOK, Routed, Cache!CacheTypeOK
<1>2. ASSUME NEW c \in Conn, Cancel(c) \/ \E q \in Requests : Receive(c, q)
      PROVE  TypeOK'
  BY <1>2, ClientType
<1>3. ASSUME NEW c \in Conn, Handle(c) PROVE TypeOK'
  BY <1>3, LookupType, FetchType, CompleteType, StoreType, FilterType, FinishFilterType,
     SendType DEF Handle
<1>4. CASE Purge \/ WatchCache \/ CollectPool
  BY <1>4, BackgroundType
<1> QED BY <1>1, <1>2, <1>3, <1>4 DEF Next

(* The state of the server always has its type. *)
THEOREM TypeCorrect == Spec => []TypeOK
BY InitType, StepType, PTL DEF Spec

-----------------------------------------------------------------------------
(* What is in the cache is right.                                          *)

(* Facts about responses without tailoring: their stubs are no documents,  *)
(* so there is nothing for Unfiltered to undo.                             *)
LEMMA StubsAreNoDocuments == \A ds : Stubs(ds) \cap Doc = {}
BY DEF Stubs, Doc

LEMMA FullAnswerIsAnswer ==
  ASSUME NEW r \in Response, NEW i, PartialAnswer(r, i, {}), r.institution = NoIsil,
         r.extra = CountsOf(r)
  PROVE  IsAnswer(r, i, NoIsil)
<1>1. (r.unmatchedCiting \cup r.unmatchedCited) \cap Doc = {}
  BY StubsAreNoDocuments DEF PartialAnswer
<1>2. Unfiltered(r) = r
  BY <1>1 DEF Unfiltered, Response
<1> QED BY <1>1, <1>2 DEF IsAnswer, IsFullAnswer

(* Marking a response as cached and counting its lists leaves the lists.   *)
LEMMA CountsKeepLists ==
  ASSUME NEW r \in Response
  PROVE  LET u == UpdateCounts(r)
         IN /\ u.doi = r.doi /\ u.institution = r.institution
            /\ u.citing = r.citing /\ u.cited = r.cited
            /\ u.unmatchedCiting = r.unmatchedCiting /\ u.unmatchedCited = r.unmatchedCited
            /\ u.extra = CountsOf(u)
BY DEF UpdateCounts, CountsOf, Response

LEMMA CachedIsAnswer ==
  ASSUME NEW r \in Response, NEW i, IsAnswer(r, i, NoIsil)
  PROVE  IsAnswer([r EXCEPT !.cached = TRUE], i, NoIsil)
<1> DEFINE u == [r EXCEPT !.cached = TRUE]
           v == Unfiltered(u)
           w == Unfiltered(r)
<1>1. /\ u.doi = r.doi /\ u.institution = r.institution /\ u.extra = r.extra
      /\ u.citing = r.citing /\ u.cited = r.cited
      /\ u.unmatchedCiting = r.unmatchedCiting /\ u.unmatchedCited = r.unmatchedCited
  BY DEF Response
<1>2. /\ v.doi = w.doi /\ v.citing = w.citing /\ v.cited = w.cited
      /\ v.unmatchedCiting = w.unmatchedCiting /\ v.unmatchedCited = w.unmatchedCited
  BY DEF Unfiltered, Response
<1>3. CountsOf(u) = CountsOf(r)
  BY <1>1 DEF CountsOf
<1>4. IsFullAnswer(w, i)
  BY DEF IsAnswer
<1>5. IsFullAnswer(v, i)
  <2> HIDE DEF v, w
  <2> QED BY <1>2, <1>4 DEF IsFullAnswer, PartialAnswer
<1>6. IsAnswer(u, i, NoIsil)
  BY <1>1, <1>3, <1>5 DEF IsAnswer
<1> QED BY <1>6

(* One more document for one more row. *)
LEMMA OneMoreDocument ==
  ASSUME NEW D, NEW R, NEW n, NEW b \in Fetched(IdMap[n].k), n \notin R,
         OneDocumentPerRow(D, R)
  PROVE  OneDocumentPerRow(D \cup {[row |-> n, src |-> b]}, R \cup {n})
<1> DEFINE x == [row |-> n, src |-> b]
<1>1. x.row = n /\ x.src = b
  OBVIOUS
<1> HIDE DEF x
<1>2. {y.row : y \in D \cup {x}} = {y.row : y \in D} \cup {n}
  BY <1>1
<1>3. \A y \in D : y.row # n
  BY DEF OneDocumentPerRow
<1>4. OneDocumentPerRow(D \cup {x}, R \cup {n})
  BY <1>1, <1>2, <1>3 DEF OneDocumentPerRow
<1> QED BY <1>4 DEF x

(* Before the first document. *)
LEMMA FirstPartialAnswer ==
  ASSUME NEW i, NEW r \in Response, NEW out, NEW in,
         out = Outbound(FirstDoi(i)), in = Inbound(FirstDoi(i)),
         r.doi = FirstDoi(i), r.citing = {}, r.cited = {}, r.institution = NoIsil,
         r.unmatchedCiting = Stubs(Unmatched(out \cup in) \cap Citing(out, in)),
         r.unmatchedCited = Stubs(Unmatched(out \cup in) \cap Cited(out, in))
  PROVE  PartialAnswer(r, i, MapToLocal(Related(FirstDoi(i))))
<1> DEFINE d == FirstDoi(i)
           open == Unmatched(Related(d))
<1>1. Related(d) = out \cup in
  BY DEF Related
<1>2. /\ open \cap Citing(out, in) = out \cap open
      /\ open \cap Cited(out, in) = (in \ out) \cap open
  BY DEF Citing, Cited
<1>3. /\ r.unmatchedCiting = Stubs(out \cap open)
      /\ r.unmatchedCited = Stubs((in \ out) \cap open)
  BY <1>1, <1>2
<1>4. /\ MapToLocal(out) \ MapToLocal(Related(d)) = {}
      /\ MapToLocal(in \ out) \ MapToLocal(Related(d)) = {}
  BY <1>1 DEF MapToLocal
<1>5. OneDocumentPerRow({}, {})
  BY DEF OneDocumentPerRow
<1> QED BY <1>3, <1>4, <1>5 DEF PartialAnswer

(* The inductive invariant: with what is known of every request on its way *)
(* to the cache, a step that stores can only store a complete answer.      *)
IInv == TypeOK /\ NothingDropsOut /\ CacheSound

(* A connection is not affected by the steps of the others. *)
Same(e) ==
  /\ pc'[e] = pc[e] /\ req'[e] = req[e] /\ resp'[e] = resp[e]
  /\ outbound'[e] = outbound[e] /\ inbound'[e] = inbound[e]
  /\ unasked'[e] = unasked[e] /\ ids'[e] = ids[e]

LEMMA SameProgress ==
  ASSUME NEW e \in Conn, Progress(e), Same(e)
  PROVE  Progress(e)'
BY DEF Progress, EdgesKnown, Same

LEMMA FinishSame ==
  ASSUME TypeOK, NEW c \in Conn, NEW r, Finish(c, r), req' = req, NEW e \in Conn \ {c}
  PROVE  Same(e)
BY DEF Finish, Same, TypeOK

LEMMA GotoSame ==
  ASSUME TypeOK, NEW c \in Conn, NEW l, Goto(c, l), req' = req, NEW e \in Conn \ {c},
         \/ ids' = ids
         \/ \E v : ids' = [ids EXCEPT ![c] = v],
         \/ unasked' = unasked
         \/ \E v : unasked' = [unasked EXCEPT ![c] = v],
         \/ resp' = resp
         \/ \E v : resp' = [resp EXCEPT ![c] = v],
         \/ UNCHANGED <<outbound, inbound>>
         \/ \E v, w : /\ outbound' = [outbound EXCEPT ![c] = v]
                      /\ inbound' = [inbound EXCEPT ![c] = w]
  PROVE  Same(e)
BY DEF Goto, Same, TypeOK

LEMMA FinishProgress ==
  ASSUME TypeOK, NEW c \in Conn, NEW r, Finish(c, r)
  PROVE  Progress(c)'
BY DEF Finish, TypeOK, Progress

(* A request that ends leaves the invariant of every connection intact. *)
LEMMA FinishNothingDropsOut ==
  ASSUME TypeOK, NothingDropsOut, NEW c \in Conn, NEW r, Finish(c, r), req' = req
  PROVE  NothingDropsOut'
<1> SUFFICES ASSUME NEW e \in Conn PROVE Progress(e)'
  BY DEF NothingDropsOut
<1>1. CASE e = c
  BY <1>1, FinishProgress
<1>2. CASE e # c
  BY <1>2, FinishSame, SameProgress DEF NothingDropsOut
<1> QED BY <1>1, <1>2

(* Nor does one that moves on, if its own part of the invariant holds. *)
LEMMA GotoNothingDropsOut ==
  ASSUME TypeOK, NothingDropsOut, NEW c \in Conn, NEW l, Goto(c, l), req' = req,
         \/ ids' = ids
         \/ \E v : ids' = [ids EXCEPT ![c] = v],
         \/ unasked' = unasked
         \/ \E v : unasked' = [unasked EXCEPT ![c] = v],
         \/ resp' = resp
         \/ \E v : resp' = [resp EXCEPT ![c] = v],
         \/ UNCHANGED <<outbound, inbound>>
         \/ \E v, w : /\ outbound' = [outbound EXCEPT ![c] = v]
                      /\ inbound' = [inbound EXCEPT ![c] = w],
         Progress(c)'
  PROVE  NothingDropsOut'
<1> SUFFICES ASSUME NEW e \in Conn, e # c PROVE Progress(e)'
  BY DEF NothingDropsOut
<1>1. Same(e)
  BY GotoSame
<1> QED BY <1>1, SameProgress DEF NothingDropsOut

LEMMA SameRows ==
  ASSUME CacheSound, UNCHANGED rows
  PROVE  CacheSound'
BY DEF CacheSound, Cache!Hit

LEMMA ClientStep ==
  ASSUME IInv, NEW c \in Conn, Cancel(c) \/ \E q \in Requests : Receive(c, q)
  PROVE  IInv'
<1>1. TypeOK'
  BY ClientType DEF IInv
<1>2. CacheSound'
  BY SameRows DEF IInv, Cancel, Receive, cacheVars
<1>3. CASE Cancel(c)
  <2>1. \A e \in Conn : Same(e)
    BY <1>3 DEF Cancel, Same, local
  <2> QED BY <1>1, <1>2, <2>1, SameProgress DEF IInv, NothingDropsOut
<1>4. ASSUME NEW q \in Requests, Receive(c, q) PROVE NothingDropsOut'
  <2> SUFFICES ASSUME NEW e \in Conn PROVE Progress(e)'
    BY DEF NothingDropsOut
  <2>1. CASE e = c
    BY <1>4, <2>1 DEF Receive, At, local, IInv, TypeOK, NothingDropsOut, Progress
  <2>2. CASE e # c
    <3>1. Same(e)
      BY <1>4, <2>2 DEF Receive, Same, local, IInv, TypeOK
    <3> QED BY <3>1, SameProgress DEF IInv, NothingDropsOut
  <2> QED BY <2>1, <2>2
<1> QED BY <1>1, <1>2, <1>3, <1>4 DEF IInv

(* A query that fails, and every other early return. *)
LEMMA EarlyReturn ==
  ASSUME IInv, NEW c \in Conn, req' = req, rows' = rows,
         \/ \E r : Finish(c, r)
         \/ \E status : Fail(c, status)
         \/ \E r : QueryFails(c, r)
  PROVE  NothingDropsOut' /\ CacheSound'
<1>1. \E r : Finish(c, r)
  BY DEF Fail, QueryFails
<1> QED BY <1>1, FinishNothingDropsOut, SameRows DEF IInv

LEMMA LookupStep ==
  ASSUME IInv, NEW c \in Conn,
         \/ HandleDOI(c) \/ Validate(c) \/ ServeFromCache(c) \/ ResolveId(c)
         \/ FindEdges(c) \/ MapBack(c)
  PROVE  IInv'
<1> USE DEF At
<1> DEFINE i == req[c].id
<1>1. TypeOK'
  BY LookupType DEF IInv
<1>2. req' = req /\ rows' = rows
  BY DEF HandleDOI, Validate, ServeFromCache, ResolveId, FindEdges, MapBack, request, cacheVars
<1>3. CacheSound'
  BY <1>2, SameRows DEF IInv
<1>4. TypeOK /\ NothingDropsOut /\ Progress(c)
  BY DEF IInv, NothingDropsOut
<1>5. CASE HandleDOI(c)
  BY <1>1, <1>2, <1>5, EarlyReturn DEF HandleDOI, IInv
<1>6. CASE Validate(c)
  <2>1. CASE Fail(c, 400)
    BY <1>1, <1>2, <2>1, EarlyReturn DEF IInv
  <2>2. CASE UNCHANGED local /\ Goto(c, IF CacheEnabled THEN "cache" ELSE "resolve")
    <3>1. Progress(c)'
      BY <1>2, <1>4, <1>6, <2>2 DEF Validate, Progress, Goto, local, TypeOK
    <3> QED BY <1>1, <1>2, <1>3, <1>4, <2>2, <3>1, GotoNothingDropsOut DEF IInv, local
  <2> QED BY <1>6, <2>1, <2>2 DEF Validate
<1>7. CASE ServeFromCache(c)
  <2>1. CASE Goto(c, "resolve") /\ UNCHANGED local
    <3>1. Progress(c)'
      BY <1>2, <1>4, <1>7, <2>1 DEF ServeFromCache, Progress, Goto, local, TypeOK
    <3> QED BY <1>1, <1>2, <1>3, <1>4, <2>1, <3>1, GotoNothingDropsOut DEF IInv, local
  <2>2. CASE (\E r : Finish(c, r)) \/ Fail(c, 500)
    BY <1>1, <1>2, <2>2, EarlyReturn DEF IInv
  <2>3. CASE /\ resp' = [resp EXCEPT ![c] = rows[i]]
             /\ Goto(c, "filter")
             /\ UNCHANGED <<outbound, inbound, unasked, ids>>
    <3>1. Progress(c)'
      BY <1>4, <2>3 DEF Progress, Goto, TypeOK
    <3> QED BY <1>1, <1>2, <1>3, <1>4, <2>3, <3>1, GotoNothingDropsOut DEF IInv
  <2> QED BY <1>7, <2>1, <2>2, <2>3 DEF ServeFromCache
<1>8. CASE ResolveId(c)
  <2>1. CASE QueryFails(c, Service!Abandoned) \/ Fail(c, 404)
    BY <1>1, <1>2, <2>1, EarlyReturn DEF IInv
  <2>2. CASE /\ KnownId(i)
             /\ resp' = [resp EXCEPT ![c].doi = FirstDoi(i)]
             /\ Goto(c, "edges")
             /\ UNCHANGED <<outbound, inbound, unasked, ids, docs>>
    <3>1. Progress(c)'
      BY <1>2, <1>4, <1>8, <2>2 DEF ResolveId, Progress, Goto, TypeOK
    <3> QED BY <1>1, <1>2, <1>3, <1>4, <2>2, <3>1, GotoNothingDropsOut DEF IInv
  <2> QED BY <1>8, <2>1, <2>2 DEF ResolveId
<1>9. CASE FindEdges(c)
  <2> DEFINE d == resp[c].doi
  <2>1. CASE QueryFails(c, Service!Abandoned) \/ Fail(c, 404)
    BY <1>1, <1>2, <2>1, EarlyReturn DEF IInv
  <2>2. CASE /\ Related(d) # {}
             /\ outbound' = [outbound EXCEPT ![c] = Outbound(d)]
             /\ inbound' = [inbound EXCEPT ![c] = Inbound(d)]
             /\ unasked' = [unasked EXCEPT ![c] = Related(d)]
             /\ ids' = [ids EXCEPT ![c] = {}]
             /\ Goto(c, "map")
             /\ UNCHANGED <<docs, resp>>
    <3>1. KnownId(i) /\ resp[c] = [EmptyResponse EXCEPT !.doi = FirstDoi(i)] /\ d = FirstDoi(i)
      BY <1>4, <1>9 DEF FindEdges, Progress, EmptyResponse
    <3>2. EdgesKnown(c)'
      BY <1>2, <1>4, <2>2, <3>1 DEF EdgesKnown, Answerable, TypeOK
    <3>3. /\ pc'[c] = "map" /\ resp'[c] = resp[c] /\ req'[c] = req[c]
          /\ unasked'[c] = Related(d) /\ ids'[c] = {}
      BY <1>2, <1>4, <2>2 DEF Goto, TypeOK
    <3>4. MapToLocal(Related(d) \ Related(d)) = {}
      BY DEF MapToLocal
    <3>5. Progress(c)'
      BY <2>2, <3>1, <3>2, <3>3, <3>4 DEF Progress
    <3> QED BY <1>1, <1>2, <1>3, <1>4, <2>2, <3>5, GotoNothingDropsOut DEF IInv
  <2> QED BY <1>9, <2>1, <2>2 DEF FindEdges
<1>10. CASE MapBack(c)
  <2> DEFINE d == FirstDoi(i)
             out == outbound[c]
             in == inbound[c]
             ds == unasked[c]
             found == ids[c] \cup MapToLocal(ds)
             open == (out \cup in) \ {IdMap[n].v : n \in found}
             r == [resp[c] EXCEPT !.unmatchedCiting = Stubs(open \cap Citing(out, in)),
                                  !.unmatchedCited = Stubs(open \cap Cited(out, in))]
  <2>1. CASE QueryFails(c, Service!Failed(500))
    BY <1>1, <1>2, <2>1, EarlyReturn DEF IInv
  <2>2. /\ EdgesKnown(c) /\ resp[c] = [EmptyResponse EXCEPT !.doi = d]
        /\ ds # {} /\ ds \subseteq Related(d) /\ ids[c] = MapToLocal(Related(d) \ ds)
        /\ pc[c] = "map"
    BY <1>4, <1>10 DEF MapBack, Progress
  <2>3. out = Outbound(d) /\ in = Inbound(d) /\ out \cup in = Related(d)
    BY <2>2 DEF EdgesKnown, Related
  <2>4. ASSUME NEW B \in SUBSET ds, AskBatch(c, B)
        PROVE  /\ unasked'[c] = ds \ B
               /\ ids'[c] = MapToLocal(Related(d) \ (ds \ B))
    <3>1. MapToLocal(Related(d) \ ds) \cup MapToLocal(B) = MapToLocal(Related(d) \ (ds \ B))
      BY <2>2 DEF MapToLocal
    <3> QED BY <1>4, <2>2, <2>4, <3>1 DEF AskBatch, TypeOK
  <2>5. CASE /\ ~LastBatch(ds)
             /\ \E B \in FullBatches(ds) : AskBatch(c, B)
             /\ UNCHANGED <<pc, reply, outbound, inbound, docs, resp>>
    <3>1. PICK B \in FullBatches(ds) : AskBatch(c, B)
      BY <2>5
    <3>2. B \in SUBSET ds /\ B # ds
      BY <2>5, ServerAssumption DEF FullBatches, LastBatch
    <3>3. EdgesKnown(c)'
      BY <1>2, <2>2, <2>5 DEF EdgesKnown
    <3>4. /\ pc'[c] = "map" /\ resp'[c] = resp[c] /\ req'[c] = req[c]
          /\ unasked'[c] # {} /\ unasked'[c] \subseteq Related(d)
          /\ ids'[c] = MapToLocal(Related(d) \ unasked'[c])
      BY <1>2, <2>2, <2>4, <2>5, <3>1, <3>2
    <3>5. Progress(c)'
      BY <2>2, <3>3, <3>4 DEF Progress
    <3>6. ASSUME NEW e \in Conn, e # c PROVE Progress(e)'
      <4>1. Same(e)
        BY <1>2, <1>4, <2>5, <3>1, <3>6 DEF Same, AskBatch, TypeOK
      <4> QED BY <1>4, <4>1, SameProgress DEF NothingDropsOut
    <3> QED BY <1>1, <1>3, <3>5, <3>6 DEF IInv, NothingDropsOut
  <2>6. CASE /\ AskBatch(c, ds)
             /\ resp' = [resp EXCEPT ![c] = r]
             /\ Goto(c, "fetch")
             /\ UNCHANGED <<outbound, inbound, docs>>
    <3>1. ids'[c] = MapToLocal(Related(d)) /\ found = MapToLocal(Related(d))
      <4>1. Related(d) \ (ds \ ds) = Related(d)
        OBVIOUS
      <4>2. MapToLocal(Related(d) \ ds) \cup MapToLocal(ds) = MapToLocal(Related(d))
        BY <2>2 DEF MapToLocal
      <4> QED BY <2>2, <2>4, <2>6, <4>1, <4>2
    <3>2. open = Unmatched(out \cup in)
      BY <2>3, <3>1 DEF Unmatched
    <3>3. r \in Response /\ resp'[c] = r /\ pc'[c] = "fetch" /\ req'[c] = req[c]
      BY <1>1, <1>2, <1>4, <2>6 DEF TypeOK, Goto
    <3>4. /\ r.doi = d /\ r.citing = {} /\ r.cited = {} /\ r.institution = NoIsil
          /\ r.unmatchedCiting = Stubs(open \cap Citing(out, in))
          /\ r.unmatchedCited = Stubs(open \cap Cited(out, in))
      BY <2>2 DEF EmptyResponse
    <3>5. PartialAnswer(r, i, MapToLocal(Related(d)))
      <4> HIDE DEF out, in, r, open
      <4> QED BY <2>3, <3>2, <3>3, <3>4, FirstPartialAnswer
    <3>6. EdgesKnown(c)'
      BY <1>2, <2>2, <2>6 DEF EdgesKnown
    <3>7. Progress(c)'
      BY <3>1, <3>3, <3>4, <3>5, <3>6 DEF Progress
    <3> QED BY <1>1, <1>2, <1>3, <1>4, <2>6, <3>7, GotoNothingDropsOut DEF IInv, AskBatch
  <2> QED BY <1>10, <2>1, <2>5, <2>6 DEF MapBack
<1> QED BY <1>5, <1>6, <1>7, <1>8, <1>9, <1>10

(* A fetched document takes its row from the rest to the answer. *)
LEMMA OneMoreRow ==
  ASSUME NEW i, NEW r \in Response, NEW rest, NEW n \in rest, NEW b \in Fetched(IdMap[n].k),
         NEW out, NEW in, out = Outbound(FirstDoi(i)), in = Inbound(FirstDoi(i)),
         PartialAnswer(r, i, rest)
  PROVE  PartialAnswer(AddDocument(r, [row |-> n, src |-> b], IdMap[n].v, out, in),
                       i, rest \ {n})
<1> DEFINE x == [row |-> n, src |-> b]
           u == AddDocument(r, x, IdMap[n].v, out, in)
           C == MapToLocal(out)
           D == MapToLocal(in \ out)
<1>1. /\ u.doi = r.doi
      /\ u.unmatchedCiting = r.unmatchedCiting /\ u.unmatchedCited = r.unmatchedCited
      /\ u.citing = IF IdMap[n].v \in out THEN r.citing \cup {x} ELSE r.citing
      /\ u.cited = IF IdMap[n].v \in in \ out THEN r.cited \cup {x} ELSE r.cited
  BY DEF AddDocument, Response, Citing, Cited
<1>2. /\ OneDocumentPerRow(r.citing, C \ rest)
      /\ OneDocumentPerRow(r.cited, D \ rest)
      /\ rest \subseteq MapToLocal(Related(FirstDoi(i)))
  BY DEF PartialAnswer
<1>3. n \in Row /\ IdMap[n].v \in out \cup in
  BY <1>2 DEF MapToLocal, Related
<1>4. /\ IdMap[n].v \in out => C \ (rest \ {n}) = (C \ rest) \cup {n}
      /\ IdMap[n].v \notin out => C \ (rest \ {n}) = C \ rest
      /\ IdMap[n].v \in in \ out => D \ (rest \ {n}) = (D \ rest) \cup {n}
      /\ IdMap[n].v \notin in \ out => D \ (rest \ {n}) = D \ rest
  BY <1>3 DEF MapToLocal
<1> HIDE DEF x, u, C, D
<1>5. OneDocumentPerRow(u.citing, C \ (rest \ {n}))
  <2>1. CASE IdMap[n].v \in out
    <3>1. OneDocumentPerRow(r.citing \cup {x}, (C \ rest) \cup {n})
      BY <1>2, OneMoreDocument DEF x
    <3> QED BY <1>1, <1>4, <2>1, <3>1
  <2>2. CASE IdMap[n].v \notin out
    BY <1>1, <1>2, <1>4, <2>2
  <2> QED BY <2>1, <2>2
<1>6. OneDocumentPerRow(u.cited, D \ (rest \ {n}))
  <2>1. CASE IdMap[n].v \in in \ out
    <3>1. OneDocumentPerRow(r.cited \cup {x}, (D \ rest) \cup {n})
      BY <1>2, OneMoreDocument DEF x
    <3> QED BY <1>1, <1>4, <2>1, <3>1
  <2>2. CASE IdMap[n].v \notin in \ out
    BY <1>1, <1>2, <1>4, <2>2
  <2> QED BY <2>1, <2>2
<1>7. PartialAnswer(u, i, rest \ {n})
  BY <1>1, <1>2, <1>5, <1>6 DEF PartialAnswer, C, D
<1> QED BY <1>7 DEF u, x

LEMMA FetchStep ==
  ASSUME IInv, NEW c \in Conn, FetchDocument(c)
  PROVE  IInv'
<1> USE DEF At
<1> DEFINE i == req[c].id
<1>1. TypeOK'
  BY FetchType DEF IInv
<1>2. req' = req /\ rows' = rows
  BY DEF FetchDocument, request, cacheVars
<1>3. CacheSound'
  BY <1>2, SameRows DEF IInv
<1>4. TypeOK /\ NothingDropsOut /\ Progress(c)
  BY DEF IInv, NothingDropsOut
<1>5. PICK n \in ids[c] : FetchFails(c, n) \/ FetchSucceeds(c, n)
  BY DEF FetchDocument
<1>6. CASE Fail(c, 500)
  BY <1>1, <1>2, <1>6, EarlyReturn DEF IInv
<1>7. ASSUME NEW b \in Fetched(IdMap[n].k),
             resp' = [resp EXCEPT ![c] = AddDocument(@, [row |-> n, src |-> b],
                                           IdMap[n].v, outbound[c], inbound[c])],
             ids' = [ids EXCEPT ![c] = @ \ {n}],
             UNCHANGED <<pc, reply, outbound, inbound, unasked, docs>>
      PROVE  IInv'
  <2> DEFINE r == resp[c]
             u == AddDocument(r, [row |-> n, src |-> b], IdMap[n].v, outbound[c], inbound[c])
  <2>1. /\ EdgesKnown(c) /\ PartialAnswer(r, i, ids[c]) /\ r.institution = NoIsil
        /\ pc[c] = "fetch" /\ r \in Response
    BY <1>4 DEF FetchDocument, Progress, TypeOK
  <2>2. PartialAnswer(u, i, ids[c] \ {n})
    BY <2>1, OneMoreRow DEF EdgesKnown
  <2>3. u.institution = NoIsil
    BY <2>1 DEF AddDocument, Response
  <2>4. pc'[c] = "fetch" /\ resp'[c] = u /\ ids'[c] = ids[c] \ {n} /\ req'[c] = req[c]
    BY <1>2, <1>4, <1>7, <2>1 DEF TypeOK
  <2>5. EdgesKnown(c)'
    BY <1>2, <1>7, <2>1 DEF EdgesKnown
  <2> HIDE DEF u, r
  <2>6. Progress(c)'
    BY <2>2, <2>3, <2>4, <2>5 DEF Progress
  <2>7. ASSUME NEW e \in Conn, e # c PROVE Progress(e)'
    <3>1. Same(e)
      BY <1>2, <1>4, <1>7, <2>7 DEF Same, TypeOK
    <3> QED BY <1>4, <3>1, SameProgress DEF NothingDropsOut
  <2> QED BY <1>1, <1>3, <2>6, <2>7 DEF IInv, NothingDropsOut
<1> QED BY <1>5, <1>6, <1>7 DEF FetchFails, FetchSucceeds

(* From the loop over ids to what is delivered or stored. *)
LEMMA DeliverProgress ==
  ASSUME TypeOK, NothingDropsOut, NEW c \in Conn, NEW r \in Response, Deliver(c, r), req' = req
  PROVE  NothingDropsOut'
<1>1. Progress(c)'
  BY DEF Deliver, Goto, Progress, TypeOK
<1> QED BY <1>1, GotoNothingDropsOut DEF Deliver

LEMMA CompleteStep ==
  ASSUME IInv, NEW c \in Conn, Complete(c)
  PROVE  IInv'
<1> USE DEF At
<1> DEFINE i == req[c].id
           r == resp[c]
           u == UpdateCounts(r)
<1>1. TypeOK'
  BY CompleteType DEF IInv
<1>2. req' = req /\ rows' = rows
  BY DEF Complete, request, cacheVars
<1>3. CacheSound'
  BY <1>2, SameRows DEF IInv
<1>4. TypeOK /\ NothingDropsOut /\ Progress(c)
  BY DEF IInv, NothingDropsOut
<1>5. /\ EdgesKnown(c) /\ PartialAnswer(r, i, {}) /\ r.institution = NoIsil
      /\ r \in Response /\ u \in Response
  BY <1>4, CountersType DEF Complete, Progress, TypeOK
<1>6. CASE Deliver(c, u)
  BY <1>1, <1>2, <1>3, <1>4, <1>5, <1>6, DeliverProgress DEF IInv
<1>7. CASE /\ resp' = [resp EXCEPT ![c] = u]
           /\ Goto(c, "store")
           /\ UNCHANGED <<outbound, inbound, unasked, ids, docs>>
  <2>1. PartialAnswer(u, i, {}) /\ u.institution = NoIsil /\ u.extra = CountsOf(u)
    BY <1>5, CountsKeepLists DEF PartialAnswer
  <2> HIDE DEF u
  <2>2. IsAnswer(u, i, NoIsil)
    BY <1>5, <2>1, FullAnswerIsAnswer
  <2>3. pc'[c] = "store" /\ resp'[c] = u /\ req'[c] = req[c]
    BY <1>2, <1>4, <1>7 DEF Goto, TypeOK
  <2>4. Progress(c)'
    BY <1>5, <2>2, <2>3 DEF Progress, EdgesKnown
  <2> QED BY <1>1, <1>2, <1>3, <1>4, <1>7, <2>4, GotoNothingDropsOut DEF IInv
<1> QED BY <1>6, <1>7 DEF Complete

(* Only a complete answer is stored. *)
LEMMA StoreStep ==
  ASSUME IInv, NEW c \in Conn, StoreResponse(c)
  PROVE  IInv'
<1> USE DEF At
<1> DEFINE i == req[c].id
           r == [resp[c] EXCEPT !.cached = TRUE]
<1>1. TypeOK'
  BY StoreType DEF IInv
<1>2. req' = req
  BY DEF StoreResponse, request
<1>3. TypeOK /\ NothingDropsOut /\ CacheSound
  BY DEF IInv
<1>4. Answerable(i) /\ IsAnswer(resp[c], i, NoIsil) /\ resp[c] \in Response /\ i \in Id
  BY <1>3, Validated DEF StoreResponse, NothingDropsOut, Progress, TypeOK
<1>5. IsAnswer(r, i, NoIsil) /\ r \in Response
  <2>1. r \in Response
    BY <1>4 DEF Response
  <2> QED BY <1>4, <2>1, CachedIsAnswer
<1>6. NothingDropsOut'
  <2>1. CASE Fail(c, 500)
    BY <1>2, <1>3, <2>1, FinishNothingDropsOut DEF Fail
  <2>2. CASE Deliver(c, r)
    BY <1>2, <1>3, <1>5, <2>2, DeliverProgress
  <2> QED BY <2>1, <2>2 DEF StoreResponse
<1>7. CacheSound'
  <2>1. CASE UNCHANGED rows
    BY <1>3, <2>1, SameRows
  <2>2. CASE Encodable(r) /\ Cache!Set(i, r)
    <3>1. rows' = [rows EXCEPT ![i] = r]
      BY <2>2 DEF Cache!Set
    <3> HIDE DEF r
    <3> SUFFICES ASSUME NEW j \in Id, rows'[j] # NoRow
                 PROVE  Answerable(j) /\ IsAnswer(rows'[j], j, NoIsil) /\ Encodable(rows'[j])
      BY DEF CacheSound, Cache!Hit
    <3>2. CASE j = i
      BY <1>3, <1>4, <1>5, <2>2, <3>1, <3>2 DEF TypeOK, Cache!CacheTypeOK
    <3>3. CASE j # i
      BY <1>3, <3>1, <3>3 DEF CacheSound, Cache!Hit, TypeOK, Cache!CacheTypeOK
    <3> QED BY <3>2, <3>3
  <2> QED BY <2>1, <2>2
        DEF StoreResponse, cacheVars, Cache!SetReadOnly, Cache!StatementFails, Cache!cacheVars
<1> QED BY <1>1, <1>6, <1>7 DEF IInv

(* Past the cache nothing is stored any more. *)
LEMMA FilterStep ==
  ASSUME IInv, NEW c \in Conn, FilterDocument(c) \/ FinishFilter(c) \/ Send(c)
  PROVE  IInv'
<1> USE DEF At
<1>1. TypeOK'
  BY FilterType, FinishFilterType, SendType DEF IInv
<1>2. req' = req /\ rows' = rows
  BY DEF FilterDocument, FinishFilter, Send, request, cacheVars
<1>3. TypeOK /\ NothingDropsOut /\ CacheSound'
  BY <1>2, SameRows DEF IInv
<1>4. CASE \E r : Finish(c, r)
  BY <1>1, <1>2, <1>4, EarlyReturn DEF IInv
<1>5. CASE FilterDocument(c)
  <2>1. \/ Fail(c, 500)
        \/ /\ \E v : resp' = [resp EXCEPT ![c] = v]
           /\ UNCHANGED <<pc, outbound, inbound, unasked, ids>>
    BY <1>5 DEF FilterDocument, RejectDocument, JudgeDocument
  <2>2. CASE Fail(c, 500)
    BY <1>4, <2>2 DEF Fail
  <2>3. CASE /\ \E v : resp' = [resp EXCEPT ![c] = v]
             /\ UNCHANGED <<pc, outbound, inbound, unasked, ids>>
    <3>1. Progress(c)'
      BY <1>3, <1>5, <2>3 DEF FilterDocument, Progress
    <3>2. ASSUME NEW e \in Conn, e # c PROVE Progress(e)'
      <4>1. Same(e)
        BY <1>2, <1>3, <2>3, <3>2 DEF Same, TypeOK
      <4> QED BY <1>3, <4>1, SameProgress DEF NothingDropsOut
    <3> QED BY <1>1, <1>3, <3>1, <3>2 DEF IInv, NothingDropsOut
  <2> QED BY <2>1, <2>2, <2>3
<1>6. CASE FinishFilter(c)
  <2>1. Goto(c, "send") /\ \E v : resp' = [resp EXCEPT ![c] = v]
    BY <1>6 DEF FinishFilter
  <2>2. UNCHANGED <<outbound, inbound, unasked, ids>>
    BY <1>6 DEF FinishFilter
  <2>3. Progress(c)'
    BY <1>3, <2>1 DEF Goto, Progress, TypeOK
  <2> QED BY <1>1, <1>2, <1>3, <2>1, <2>2, <2>3, GotoNothingDropsOut DEF IInv
<1>7. CASE Send(c)
  BY <1>4, <1>7 DEF Send, Fail
<1> QED BY <1>5, <1>6, <1>7

LEMMA BackgroundStep ==
  ASSUME IInv, Purge \/ WatchCache \/ CollectPool
  PROVE  IInv'
<1>1. TypeOK'
  BY BackgroundType DEF IInv
<1>2. NothingDropsOut'
  <2>1. \A e \in Conn : Same(e)
    BY DEF Purge, WatchCache, CollectPool, Same, request, local
  <2> QED BY <2>1, SameProgress DEF IInv, NothingDropsOut
<1>3. CacheSound'
  <2>1. CASE Purge
    BY <2>1 DEF Purge, Cache!Flush, CacheSound, Cache!Hit
  <2>2. CASE UNCHANGED rows
    BY <2>2, SameRows DEF IInv
  <2> QED BY <2>1, <2>2
        DEF WatchCache, Cache!Tick, Cache!SwitchToReadOnly, Cache!StatFails, CollectPool,
            cacheVars
<1> QED BY <1>1, <1>2, <1>3 DEF IInv

LEMMA Inductive == IInv /\ [Next]_vars => IInv'
<1> SUFFICES ASSUME IInv, [Next]_vars PROVE IInv'
  OBVIOUS
<1>1. CASE UNCHANGED vars
  <2>1. TypeOK'
    BY <1>1 DEF vars, cacheVars, request, local, IInv, TypeOK, Routed, Cache!CacheTypeOK
  <2>2. \A e \in Conn : Same(e)
    BY <1>1 DEF vars, request, local, Same
  <2>3. CacheSound'
    BY <1>1, SameRows DEF vars, cacheVars, IInv
  <2> QED BY <2>1, <2>2, <2>3, SameProgress DEF IInv, NothingDropsOut
<1>2. ASSUME NEW c \in Conn, Cancel(c) \/ \E q \in Requests : Receive(c, q)
      PROVE  IInv'
  BY <1>2, ClientStep
<1>3. ASSUME NEW c \in Conn, Handle(c) PROVE IInv'
  BY <1>3, LookupStep, FetchStep, CompleteStep, StoreStep, FilterStep DEF Handle
<1>4. CASE Purge \/ WatchCache \/ CollectPool
  BY <1>4, BackgroundStep
<1> QED BY <1>1, <1>2, <1>3, <1>4 DEF Next

LEMMA InitInv == Init => IInv
<1> SUFFICES ASSUME Init PROVE IInv
  OBVIOUS
<1>1. NothingDropsOut
  BY DEF Init, NothingDropsOut, Progress
<1>2. CacheSound
  BY DEF Init, Cache!CacheInit, CacheSound, Cache!Hit
<1> QED BY <1>1, <1>2, InitType DEF IInv

(* Until its response may be stored, a request never loses sight of a row: *)
(* whatever fails and whatever the other handlers do, the lists so far and *)
(* the rows still to fetch make up the complete answer.                    *)
THEOREM NoRowIsLost == Spec => []NothingDropsOut
<1>1. IInv => NothingDropsOut
  BY DEF IInv
<1> QED BY <1>1, InitInv, Inductive, PTL DEF Spec

(* serveFromCache can rely on the cache: under an id there is the complete *)
(* answer for that id, never a partial or a filtered one, and it can be    *)
(* decoded, for any number of handlers that store and purge concurrently.  *)
THEOREM CacheCorrect == Spec => []CacheSound
<1>1. IInv => CacheSound
  BY DEF IInv
<1> QED BY <1>1, InitInv, Inductive, PTL DEF Spec
-----------------------------------------------------------------------------
(* The promises of the cache, kept by the server that uses it.             *)

(* Whatever a handler, the purge or the watcher does is nothing to the     *)
(* cache or one of its operations.                                         *)
CacheOperation ==
  \/ \E k \in Id, v \in Response : Cache!Set(k, v)
  \/ Cache!Flush
  \/ Cache!Tick \/ Cache!SwitchToReadOnly \/ Cache!StatFails
  \/ UNCHANGED cacheVars

LEMMA OnlyCacheOperations ==
  ASSUME TypeOK, [Next]_vars
  PROVE  CacheOperation
<1> USE DEF CacheOperation
<1>1. CASE UNCHANGED vars
  BY <1>1 DEF vars
<1>2. ASSUME NEW c \in Conn, Cancel(c) \/ \E q \in Requests : Receive(c, q)
      PROVE  CacheOperation
  BY <1>2 DEF Cancel, Receive
<1>3. ASSUME NEW c \in Conn, Handle(c) PROVE CacheOperation
  <2>1. CASE StoreResponse(c)
    <3>1. req[c].id \in Id
      BY <2>1, Validated DEF StoreResponse, At
    <3>2. [resp[c] EXCEPT !.cached = TRUE] \in Response
      BY DEF TypeOK, Response
    <3> QED BY <2>1, <3>1, <3>2
            DEF StoreResponse, Cache!SetReadOnly, Cache!StatementFails, Cache!cacheVars, cacheVars
  <2>2. CASE UNCHANGED cacheVars
    BY <2>2
  <2> QED BY <1>3, <2>1, <2>2
          DEF Handle, HandleDOI, Validate, ServeFromCache, ResolveId, FindEdges, MapBack,
              FetchDocument, Complete, FilterDocument, FinishFilter, Send
<1>4. CASE Purge \/ WatchCache \/ CollectPool
  BY <1>4 DEF Purge, WatchCache, CollectPool
<1> QED BY <1>1, <1>2, <1>3, <1>4 DEF Next

CacheInv == TypeOK /\ ReadOnlyOnlyOverLimit

LEMMA CacheInductive == CacheInv /\ [Next]_vars => CacheInv'
<1> SUFFICES ASSUME CacheInv, [Next]_vars PROVE ReadOnlyOnlyOverLimit'
  BY StepType DEF CacheInv
<1> USE DEF CacheInv, ReadOnlyOnlyOverLimit, Cache!ReadOnlyOnlyOverLimit, Cache!OverLimit
<1>1. fileSize \in Nat /\ MaxFileSize \in Nat
  BY ServerAssumption DEF TypeOK, Cache!CacheTypeOK
<1>2. ASSUME NEW k \in Id, NEW v \in Response, Cache!Set(k, v) PROVE ReadOnlyOnlyOverLimit'
  <2>1. fileSize' \in Nat /\ fileSize' >= fileSize
    BY <1>1, <1>2, GrowType DEF Cache!Set
  <2>2. UNCHANGED <<readOnly, watcher>>
    BY <1>2 DEF Cache!Set
  <2> QED BY <1>1, <2>1, <2>2
<1>3. CASE Cache!Flush
  BY <1>3 DEF Cache!Flush
<1>4. CASE Cache!Tick \/ Cache!SwitchToReadOnly \/ Cache!StatFails
  BY <1>4 DEF Cache!Tick, Cache!SwitchToReadOnly, Cache!StatFails
<1>5. CASE UNCHANGED cacheVars
  BY <1>5 DEF cacheVars
<1>6. CacheOperation
  BY OnlyCacheOperations
<1> QED BY <1>2, <1>3, <1>4, <1>5, <1>6 DEF CacheOperation

LEMMA CacheInvInit == Init => CacheInv
<1> SUFFICES ASSUME Init PROVE CacheInv
  OBVIOUS
<1>1. ReadOnlyOnlyOverLimit
  BY DEF Init, Cache!CacheInit, ReadOnlyOnlyOverLimit, Cache!ReadOnlyOnlyOverLimit
<1> QED BY <1>1, InitType DEF CacheInv

(* The cache turns read-only only because its file has outgrown the limit, *)
(* and no purge and no store since then has changed that.                  *)
THEOREM ReadOnlyHasReason == Spec => []ReadOnlyOnlyOverLimit
<1>1. CacheInv => ReadOnlyOnlyOverLimit
  BY DEF CacheInv
<1> QED BY <1>1, CacheInvInit, CacheInductive, PTL DEF Spec

(* Read-only mode is for good: no Set of any handler gets through later,   *)
(* no purge ends it and the file stays as it is.                           *)
THEOREM ReadOnlyForGood == Spec => ReadOnlyIsFinal
<1> DEFINE A == readOnly => /\ readOnly'
                            /\ \A k \in Id : rows'[k] \in {rows[k], NoRow}
                            /\ fileSize' = fileSize
<1>1. CacheInv /\ [Next]_vars => [A]_(Cache!cacheVars)
  <2> SUFFICES ASSUME CacheInv, [Next]_vars, readOnly PROVE [A]_(Cache!cacheVars)
    OBVIOUS
  <2>1. CacheOperation
    BY OnlyCacheOperations DEF CacheInv
  <2>2. CASE \E k \in Id, v \in Response : Cache!Set(k, v)
    BY <2>2 DEF Cache!Set
  <2>3. CASE Cache!Flush
    BY <2>3 DEF Cache!Flush
  <2>4. CASE Cache!Tick \/ Cache!SwitchToReadOnly \/ Cache!StatFails
    BY <2>4 DEF Cache!Tick, Cache!SwitchToReadOnly, Cache!StatFails
  <2>5. CASE UNCHANGED cacheVars
    BY <2>5 DEF cacheVars, Cache!cacheVars
  <2> QED BY <2>1, <2>2, <2>3, <2>4, <2>5 DEF CacheOperation
<1> QED
  BY <1>1, CacheInvInit, CacheInductive, PTL
     DEF Spec, ReadOnlyIsFinal, Cache!ReadOnlyIsFinal
=============================================================================
