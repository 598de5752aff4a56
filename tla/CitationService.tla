--------------------------- MODULE CitationService ---------------------------
(***************************************************************************)
(* What the labed server promises its clients, with neither cache nor      *)
(* steps: a request is taken and, some time later, answered once with a    *)
(* reply that depends on the databases and on the request alone.           *)
(***************************************************************************)
EXTENDS CitationData

CONSTANTS Conn,       \* connections, each with at most one request at a time
          BadIsil,    \* a value of the parameter i that is no ISIL
          DbFaults,   \* may a query of the id or citation database fail?
          CacheFaults \* may a statement on the cache fail?

Lookup == [kind : {"id"}, id : Id, isil : Isil \cup {NoIsil, BadIsil}]
Redirection == [kind : {"doi"}, doi : Doi]
Request == Lookup \cup Redirection

Ok(r) == [status |-> 200, body |-> r]
Moved(i) == [status |-> 307, location |-> i]
Failed(s) == [status |-> s]
NoReply == Failed(0)
Abandoned == Failed(499) \* nothing is written, the client has gone

Reply == [status : {200}, body : Response] \cup [status : {307}, location : Id]
           \cup [status : {0, 400, 404, 499, 500}]

VARIABLES req,  \* the request of a connection, the last one if it is idle
          busy, \* is it being worked on?
          gone, \* has the client cancelled it?
          reply \* the reply to it

serviceVars == <<req, busy, gone, reply>>

-----------------------------------------------------------------------------
(* The documents of a full answer for i, from any backend that may serve   *)
(* them, and whether one of them is malformed.                             *)
RowsOf(i) == MapToLocal(Related(FirstDoi(i)))
SomeBlob(i, B) == \E n \in RowsOf(i) : \E b \in Fetched(IdMap[n].k) :
                    Backends[b][IdMap[n].k] \in B

(* The only excuses for a failure: a database, cache or backend that may   *)
(* fail, an id that no backend knows, a document that is not JSON or, for  *)
(* a tailored reply, has no proper institution list.                       *)
MayFail(q) ==
  \/ DbFaults \/ CacheFaults
  \/ /\ q.kind = "id"
     /\ Answerable(q.id)
     /\ \/ \E n \in RowsOf(q.id) : FetchMayFail(IdMap[n].k)
        \/ SomeBlob(q.id, {NotJson})
        \/ q.isil # NoIsil /\ SomeBlob(q.id, {IllTyped})

GoodReply(r, q) ==
  \/ q.kind = "doi" /\ \/ KnownDoi(q.doi) /\ r = Moved(FirstId(q.doi))
                       \/ ~KnownDoi(q.doi) /\ r = Failed(404)
  \/ q.kind = "id" /\ \/ /\ q.isil = BadIsil
                         /\ r = Failed(400)
                      \/ /\ q.isil # BadIsil
                         /\ Answerable(q.id)
                         /\ r.status = 200
                         /\ IsAnswer(r.body, q.id, q.isil)
                         /\ Encodable(r.body)
                      \/ /\ q.isil # BadIsil
                         /\ ~Answerable(q.id)
                         /\ r = Failed(404)

(* A client that has gone gets anything or nothing; a failing lookup of a  *)
(* DOI is reported as "no id found".                                       *)
AllowedReply(r, q, left) ==
  \/ GoodReply(r, q)
  \/ left /\ r \in {Abandoned, Failed(500)}
  \/ MayFail(q) /\ q.kind = "id" /\ q.isil # BadIsil /\ r = Failed(500)
  \/ DbFaults /\ q.kind = "doi" /\ r = Failed(404)

-----------------------------------------------------------------------------
ServiceInit ==
  /\ req \in [Conn -> Request]
  /\ busy = [c \in Conn |-> FALSE]
  /\ gone = [c \in Conn |-> FALSE]
  /\ reply = [c \in Conn |-> NoReply]

Accept(c) ==
  /\ ~busy[c]
  /\ \E q \in Request : req' = [req EXCEPT ![c] = q]
  /\ busy' = [busy EXCEPT ![c] = TRUE]
  /\ gone' = [gone EXCEPT ![c] = FALSE]
  /\ reply' = [reply EXCEPT ![c] = NoReply]

Leave(c) ==
  /\ busy[c]
  /\ gone' = [gone EXCEPT ![c] = TRUE]
  /\ UNCHANGED <<req, busy, reply>>

Answer(c) ==
  /\ busy[c]
  /\ busy' = [busy EXCEPT ![c] = FALSE]
  /\ reply' = [reply EXCEPT ![c] = reply'[c]]
  /\ AllowedReply(reply'[c], req[c], gone[c])
  /\ UNCHANGED <<req, gone>>

ServiceNext == \E c \in Conn : Accept(c) \/ Leave(c) \/ Answer(c)

ServiceSpec == ServiceInit /\ [][ServiceNext]_serviceVars
=============================================================================
