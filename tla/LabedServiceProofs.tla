--------------------------- MODULE LabedServiceProofs ---------------------------
(***************************************************************************)
(* Proof that LabedServer implements CitationService, for any databases    *)
(* in which every document names its institutions, any number of           *)
(* connections, any faults, with the cache or without.                     *)
(***************************************************************************)
EXTENDS LabedServerProofs

(* No document comes without the "institution" field.  The filter judges   *)
(* one that does by what is left in a pooled snippet, and the reply may    *)
(* then be wrong (FilterByIndexData).                                      *)
FieldsGiven == \A b \in Backend : \A i \in DOMAIN Backends[b] : Backends[b][i] # NoField

-----------------------------------------------------------------------------
(* The service looks at the same data.                                     *)

LEMMA SameLookups ==
  /\ \A i : Service!KnownId(i) <=> KnownId(i)
  /\ \A i : Service!FirstDoi(i) = FirstDoi(i)
  /\ \A d : Service!KnownDoi(d) <=> KnownDoi(d)
  /\ \A d : Service!FirstId(d) = FirstId(d)
  /\ \A d : Service!Related(d) = Related(d)
  /\ \A i : Service!Answerable(i) <=> Answerable(i)
  /\ \A ds : Service!MapToLocal(ds) = MapToLocal(ds)
  /\ \A i : Service!RowsOf(i) = MapToLocal(Related(FirstDoi(i)))
<1>1. /\ \A i : Service!KnownId(i) <=> KnownId(i)
      /\ \A i : Service!FirstDoi(i) = FirstDoi(i)
  BY DEF Service!KnownId, KnownId, Service!FirstDoi, FirstDoi, Service!Row, Row
<1>2. /\ \A d : Service!KnownDoi(d) <=> KnownDoi(d)
      /\ \A d : Service!FirstId(d) = FirstId(d)
  BY DEF Service!KnownDoi, KnownDoi, Service!FirstId, FirstId, Service!Row, Row
<1>3. \A d : Service!Related(d) = Related(d)
  BY DEF Service!Related, Related, Service!Outbound, Outbound, Service!Inbound, Inbound
<1>4. \A ds : Service!MapToLocal(ds) = MapToLocal(ds)
  BY DEF Service!MapToLocal, MapToLocal, Service!Row, Row
<1>5. \A i : Service!Answerable(i) <=> Answerable(i)
  BY <1>1, <1>3 DEF Service!Answerable, Answerable
<1>6. \A i : Service!RowsOf(i) = MapToLocal(Related(FirstDoi(i)))
  BY <1>1, <1>3, <1>4 DEF Service!RowsOf
<1> QED BY <1>1, <1>2, <1>3, <1>4, <1>5, <1>6

LEMMA SameFetches ==
  /\ \A i : Service!Holders(i) = Holders(i)
  /\ \A i : Service!Fetched(i) = Fetched(i)
  /\ \A i : Service!FetchMayFail(i) <=> FetchMayFail(i)
  /\ Service!Doc = Doc
<1>1. \A i : Service!Holders(i) = Holders(i)
  BY DEF Service!Holders, Holders, Service!Backend, Backend
<1>2. \A i : Service!Fetched(i) = Fetched(i)
  BY <1>1 DEF Service!Fetched, Fetched
<1>3. \A i : Service!FetchMayFail(i) <=> FetchMayFail(i)
  BY <1>1 DEF Service!FetchMayFail, FetchMayFail
<1>4. Service!Doc = Doc
  BY <1>1 DEF Service!Doc, Doc, Service!Row, Row, Service!Backend, Backend
<1> QED BY <1>1, <1>2, <1>3, <1>4

LEMMA SameAnswers == \A r, i, s : Service!IsAnswer(r, i, s) <=> IsAnswer(r, i, s)
<1>1. \A D, R : Service!OneDocumentPerRow(D, R) <=> OneDocumentPerRow(D, R)
  BY SameFetches DEF Service!OneDocumentPerRow, OneDocumentPerRow
<1>2. \A d : Service!Outbound(d) = Outbound(d) /\ Service!Inbound(d) = Inbound(d)
  BY DEF Service!Outbound, Outbound, Service!Inbound, Inbound
<1>3. \A ds : Service!Unmatched(ds) = Unmatched(ds)
  BY SameLookups DEF Service!Unmatched, Unmatched
<1>4. \A ds : Service!Stubs(ds) = Stubs(ds)
  BY DEF Service!Stubs, Stubs
<1>5. \A r, i, rest : Service!PartialAnswer(r, i, rest) <=> PartialAnswer(r, i, rest)
  BY <1>1, <1>2, <1>3, <1>4, SameLookups DEF Service!PartialAnswer, PartialAnswer
<1>6. \A r : Service!Unfiltered(r) = Unfiltered(r)
  BY SameFetches DEF Service!Unfiltered, Unfiltered
<1>7. \A r : Service!CountsOf(r) = CountsOf(r)
  BY DEF Service!CountsOf, CountsOf, Service!Cardinality, Cardinality
<1>8. \A x : Service!Holdings(x) = Holdings(x)
  BY DEF Service!Holdings, Holdings, Service!BlobOf, BlobOf, Service!BadBlob, BadBlob
<1>9. \A r : Service!Documents(r) = Documents(r)
  BY DEF Service!Documents, Documents
<1> QED
  BY <1>5, <1>6, <1>7, <1>8, <1>9, SameFetches
     DEF Service!IsAnswer, IsAnswer, Service!IsFullAnswer, IsFullAnswer

LEMMA SameEncodable == \A r : Service!Encodable(r) <=> Encodable(r)
BY DEF Service!Encodable, Encodable, Service!Documents, Documents, Service!BlobOf, BlobOf

-----------------------------------------------------------------------------
(* Answers and the documents in them.                                      *)

LEMMA UnfilteredLists ==
  ASSUME NEW r \in Response
  PROVE  LET u == Unfiltered(r)
         IN /\ u.doi = r.doi
            /\ u.citing = r.citing \cup (r.unmatchedCiting \cap Doc)
            /\ u.cited = r.cited \cup (r.unmatchedCited \cap Doc)
            /\ u.unmatchedCiting = r.unmatchedCiting \ Doc
            /\ u.unmatchedCited = r.unmatchedCited \ Doc
BY DEF Unfiltered, Response

(* Only what Unfiltered leaves of the lists says whether an answer is full. *)
LEMMA SameLists ==
  ASSUME NEW r \in Response, NEW u \in Response, NEW i, IsFullAnswer(Unfiltered(r), i),
         u.doi = r.doi,
         u.citing \cup (u.unmatchedCiting \cap Doc) = r.citing \cup (r.unmatchedCiting \cap Doc),
         u.cited \cup (u.unmatchedCited \cap Doc) = r.cited \cup (r.unmatchedCited \cap Doc),
         u.unmatchedCiting \ Doc = r.unmatchedCiting \ Doc,
         u.unmatchedCited \ Doc = r.unmatchedCited \ Doc
  PROVE  IsFullAnswer(Unfiltered(u), i)
<1> DEFINE v == Unfiltered(u)
           w == Unfiltered(r)
<1>1. /\ v.doi = w.doi /\ v.citing = w.citing /\ v.cited = w.cited
      /\ v.unmatchedCiting = w.unmatchedCiting /\ v.unmatchedCited = w.unmatchedCited
  BY UnfilteredLists
<1>2. IsFullAnswer(w, i)
  OBVIOUS
<1>3. IsFullAnswer(v, i)
  <2> HIDE DEF v, w
  <2> QED BY <1>1, <1>2 DEF IsFullAnswer, PartialAnswer
<1> QED BY <1>3

(* A document is in one list, and comes from a row and a backend that the  *)
(* answer may take it from.                                                *)
LEMMA AnswerDocuments ==
  ASSUME NEW r \in Response, NEW i, IsFullAnswer(Unfiltered(r), i)
  PROVE  /\ r.citing \cap r.cited = {}
         /\ \A x \in Documents(r) : /\ x \in Doc
                                    /\ x.row \in MapToLocal(Related(FirstDoi(i)))
                                    /\ x.src \in Fetched(IdMap[x.row].k)
<1> DEFINE u == Unfiltered(r)
           out == Outbound(FirstDoi(i))
           in == Inbound(FirstDoi(i)) \ Outbound(FirstDoi(i))
<1>1. r.citing \subseteq u.citing /\ r.cited \subseteq u.cited
  BY UnfilteredLists
<1>2. /\ OneDocumentPerRow(u.citing, MapToLocal(out))
      /\ OneDocumentPerRow(u.cited, MapToLocal(in))
  <2> HIDE DEF u
  <2>1. PartialAnswer(u, i, {})
    BY DEF IsFullAnswer, u
  <2>2. /\ MapToLocal(out) \ {} = MapToLocal(out)
        /\ MapToLocal(in) \ {} = MapToLocal(in)
    OBVIOUS
  <2> QED BY <2>1, <2>2 DEF PartialAnswer
<1>3. /\ \A x \in r.citing : x.row \in MapToLocal(out) /\ x.src \in Fetched(IdMap[x.row].k)
      /\ \A x \in r.cited : x.row \in MapToLocal(in) /\ x.src \in Fetched(IdMap[x.row].k)
  <2> HIDE DEF u, out, in
  <2> QED BY <1>1, <1>2 DEF OneDocumentPerRow
<1>4. MapToLocal(out) \cap MapToLocal(in) = {}
  BY DEF MapToLocal
<1>5. MapToLocal(out) \cup MapToLocal(in) \subseteq MapToLocal(Related(FirstDoi(i)))
  BY DEF MapToLocal, Related
<1>6. Documents(r) = r.citing \cup r.cited /\ Documents(r) \subseteq Doc
  BY DEF Documents, Response
<1> HIDE DEF u, out, in
<1> QED BY <1>3, <1>4, <1>5, <1>6

(* The excuse that a bad document is.                                      *)
LEMMA BadDocument ==
  ASSUME NEW r \in Response, NEW i, IsFullAnswer(Unfiltered(r), i),
         NEW x \in Documents(r), NEW B, BlobOf(x) \in B
  PROVE  Service!SomeBlob(i, B)
<1>1. /\ x.row \in Service!RowsOf(i)
      /\ x.src \in Service!Fetched(IdMap[x.row].k)
  BY AnswerDocuments, SameLookups, SameFetches
<1> QED BY <1>1 DEF Service!SomeBlob, BlobOf

(* Moving a document to the unmatched ones is undone by Unfiltered.        *)
LEMMA MovedIsAnswer ==
  ASSUME NEW r \in Response, NEW i, IsFullAnswer(Unfiltered(r), i), NEW x \in Documents(r)
  PROVE  /\ IsFullAnswer(Unfiltered(MoveToUnmatched(r, x)), i)
         /\ Documents(MoveToUnmatched(r, x)) = Documents(r) \ {x}
         /\ LET u == MoveToUnmatched(r, x)
            IN (u.unmatchedCiting \cup u.unmatchedCited) \cap Doc
                 = ((r.unmatchedCiting \cup r.unmatchedCited) \cap Doc) \cup {x}
<1> DEFINE u == MoveToUnmatched(r, x)
<1>1. x \in Doc /\ ~(x \in r.citing /\ x \in r.cited) /\ (x \in r.citing \/ x \in r.cited)
  BY AnswerDocuments DEF Documents
<1>2. u \in Response
  BY <1>1, MoveType
<1>3. /\ u.doi = r.doi
      /\ u.citing = r.citing \ {x} /\ u.cited = r.cited \ {x}
      /\ u.unmatchedCiting = IF x \in r.citing THEN r.unmatchedCiting \cup {x}
                                               ELSE r.unmatchedCiting
      /\ u.unmatchedCited = IF x \in r.cited THEN r.unmatchedCited \cup {x}
                                             ELSE r.unmatchedCited
  BY DEF MoveToUnmatched, Response
<1> HIDE DEF u
<1>4. IsFullAnswer(Unfiltered(u), i)
  <2>1. CASE x \in r.citing
    <3>1. x \notin r.cited
      BY <1>1, <2>1
    <3>2. /\ u.citing \cup (u.unmatchedCiting \cap Doc) = r.citing \cup (r.unmatchedCiting \cap Doc)
          /\ u.cited \cup (u.unmatchedCited \cap Doc) = r.cited \cup (r.unmatchedCited \cap Doc)
          /\ u.unmatchedCiting \ Doc = r.unmatchedCiting \ Doc
          /\ u.unmatchedCited \ Doc = r.unmatchedCited \ Doc
      BY <1>1, <1>3, <2>1, <3>1
    <3> QED BY <1>2, <1>3, <3>2, SameLists
  <2>2. CASE x \in r.cited
    <3>1. x \notin r.citing
      BY <1>1, <2>2
    <3>2. /\ u.citing \cup (u.unmatchedCiting \cap Doc) = r.citing \cup (r.unmatchedCiting \cap Doc)
          /\ u.cited \cup (u.unmatchedCited \cap Doc) = r.cited \cup (r.unmatchedCited \cap Doc)
          /\ u.unmatchedCiting \ Doc = r.unmatchedCiting \ Doc
          /\ u.unmatchedCited \ Doc = r.unmatchedCited \ Doc
      BY <1>1, <1>3, <2>2, <3>1
    <3> QED BY <1>2, <1>3, <3>2, SameLists
  <2> QED BY <1>1, <2>1, <2>2
<1>5. Documents(u) = Documents(r) \ {x}
  BY <1>3 DEF Documents
<1>6. (u.unmatchedCiting \cup u.unmatchedCited) \cap Doc
        = ((r.unmatchedCiting \cup r.unmatchedCited) \cap Doc) \cup {x}
  BY <1>1, <1>3
<1> QED BY <1>4, <1>5, <1>6 DEF u

(* A full answer that nobody has tailored yet. *)
LEMMA AnswerIsFull ==
  ASSUME NEW r \in Response, NEW i, IsAnswer(r, i, NoIsil)
  PROVE  /\ IsFullAnswer(Unfiltered(r), i)
         /\ (r.unmatchedCiting \cup r.unmatchedCited) \cap Doc = {}
BY DEF IsAnswer

-----------------------------------------------------------------------------
(* The inductive invariant: what is known of a response after it may have  *)
(* been stored, until it is sent.                                          *)

Filtering(c) ==
  LET i == req[c].id
      s == req[c].isil
      r == resp[c]
  IN /\ Answerable(i)
     /\ Tailored(c)
     /\ IsFullAnswer(Unfiltered(r), i)
     /\ docs[c] \subseteq Documents(r)
     /\ \A x \in Documents(r) \ docs[c] : s \in Holdings(x)
     /\ \A x \in (r.unmatchedCiting \cup r.unmatchedCited) \cap Doc : s \notin Holdings(x)

ReadyToSend(c) == Answerable(req[c].id) /\ IsAnswer(resp[c], req[c].id, req[c].isil)

Tailoring(c) ==
  /\ pc[c] = "filter" => Filtering(c)
  /\ pc[c] = "send" => ReadyToSend(c)

ServiceInv == IInv /\ \A c \in Conn : Tailoring(c)

(* The steps of other connections leave a response alone.                  *)
Untouched(e) ==
  pc'[e] = pc[e] /\ req'[e] = req[e] /\ docs'[e] = docs[e] /\ resp'[e] = resp[e]

LEMMA UntouchedTailoring ==
  ASSUME NEW e, Tailoring(e), Untouched(e)
  PROVE  Tailoring(e)'
BY DEF Tailoring, Filtering, ReadyToSend, Tailored, Untouched

LEMMA FinishOthers ==
  ASSUME TypeOK, NEW c \in Conn, NEW r, Finish(c, r), req' = req
  PROVE  /\ \A e \in Conn \ {c} : Untouched(e)
         /\ Tailoring(c)'
BY DEF TypeOK, Finish, Untouched, Tailoring

LEMMA GotoOthers ==
  ASSUME TypeOK, NEW c \in Conn, NEW l, Goto(c, l) \/ UNCHANGED pc, req' = req,
         docs' = docs \/ \E v : docs' = [docs EXCEPT ![c] = v],
         resp' = resp \/ \E v : resp' = [resp EXCEPT ![c] = v],
         NEW e \in Conn \ {c}
  PROVE  Untouched(e)
BY DEF TypeOK, Goto, Untouched

LEMMA GotoTailoring ==
  ASSUME TypeOK, NEW c \in Conn, NEW l, Goto(c, l), l \notin {"filter", "send"}
  PROVE  Tailoring(c)'
BY DEF TypeOK, Goto, Tailoring

(* A complete answer goes to the filter or out.                            *)
LEMMA DeliverTailoring ==
  ASSUME TypeOK, NEW c \in Conn, NEW r \in Response, Deliver(c, r), req' = req,
         Answerable(req[c].id), IsAnswer(r, req[c].id, NoIsil)
  PROVE  /\ \A e \in Conn \ {c} : Untouched(e)
         /\ Tailoring(c)'
<1> DEFINE l == IF Tailored(c) THEN "filter" ELSE "send"
<1>1. pc' = [pc EXCEPT ![c] = l] /\ Goto(c, l)
  BY DEF Deliver, Goto
<1>2. \A e \in Conn \ {c} : Untouched(e)
  <2>1. /\ \E v : docs' = [docs EXCEPT ![c] = v]
        /\ \E v : resp' = [resp EXCEPT ![c] = v]
    BY DEF Deliver
  <2> QED BY <1>1, <2>1, GotoOthers
<1>3. resp'[c] = r /\ req'[c] = req[c] /\ pc'[c] = l
  BY <1>1 DEF Deliver, TypeOK
<1>4. CASE Tailored(c)
  <2>1. pc'[c] = "filter" /\ Tailored(c)' /\ docs'[c] = Documents(r)
    BY <1>3, <1>4 DEF Deliver, TypeOK, Tailored
  <2>2. Filtering(c)'
    BY <1>3, <2>1, AnswerIsFull DEF Filtering
  <2> QED BY <2>1, <2>2, <1>2 DEF Tailoring
<1>5. CASE ~Tailored(c)
  <2>1. pc'[c] = "send" /\ req[c].isil = NoIsil
    BY <1>3, <1>5 DEF Tailored
  <2> QED BY <1>2, <1>3, <2>1 DEF Tailoring, ReadyToSend
<1> QED BY <1>4, <1>5

-----------------------------------------------------------------------------
(* The steps of a handler: each ends with a reply that the service allows, *)
(* or goes on, and keeps what is known of the responses.                   *)

Answers(c) == \E r : Finish(c, r) /\ Service!AllowedReply(r, req[c], gone[c])
GoesOn(c) == UNCHANGED <<pc, reply>> \/ \E l \in Label \ {"idle"} : Goto(c, l)

GoodStep(c) ==
  /\ Answers(c) \/ GoesOn(c)
  /\ \A e \in Conn \ {c} : Untouched(e)
  /\ Tailoring(c)'

LEMMA AnswerIsGood ==
  ASSUME TypeOK, NEW c \in Conn, Answers(c), req' = req
  PROVE  GoodStep(c)
BY FinishOthers DEF Answers, GoodStep

LEMMA GotoIsGood ==
  ASSUME TypeOK, NEW c \in Conn, NEW l \in Label \ {"idle", "filter", "send"}, Goto(c, l),
         req' = req, docs' = docs, resp' = resp \/ \E v : resp' = [resp EXCEPT ![c] = v]
  PROVE  GoodStep(c)
BY GotoOthers, GotoTailoring DEF GoesOn, GoodStep

LEMMA DeliverIsGood ==
  ASSUME TypeOK, NEW c \in Conn, NEW r \in Response, Deliver(c, r), req' = req,
         Answerable(req[c].id), IsAnswer(r, req[c].id, NoIsil)
  PROVE  GoodStep(c)
<1>1. GoesOn(c)
  BY DEF Deliver, GoesOn, Label
<1> QED BY <1>1, DeliverTailoring DEF GoodStep

(* What the router and the validation let through.                         *)
LEMMA LookupRequest ==
  ASSUME TypeOK, NEW c \in Conn, pc[c] \notin {"idle", "redirect", "validate"}
  PROVE  req[c].kind = "id" /\ req[c].id \in Id /\ req[c].isil # BadIsil
BY Validated DEF TypeOK, Routed, Service!Lookup

LEMMA FailedQuery ==
  ASSUME TypeOK, NEW c \in Conn, pc[c] \notin {"idle", "redirect", "validate"},
         NEW onCancel \in {Service!Abandoned, Service!Failed(500)}, QueryFails(c, onCancel)
  PROVE  Answers(c)
<1>1. CASE gone[c] /\ Finish(c, onCancel)
  <2>1. Service!AllowedReply(onCancel, req[c], gone[c])
    BY <1>1 DEF Service!AllowedReply
  <2> QED BY <1>1, <2>1 DEF Answers
<1>2. CASE DbFaults /\ Fail(c, 500)
  <2>1. Service!AllowedReply(Service!Failed(500), req[c], gone[c])
    BY <1>2, LookupRequest DEF Service!AllowedReply, Service!MayFail
  <2> QED BY <1>2, <2>1 DEF Answers, Fail
<1> QED BY <1>1, <1>2 DEF QueryFails

(* A lookup that fails with an excuse, or because there is nothing.        *)
LEMMA Excused ==
  ASSUME TypeOK, NEW c \in Conn, pc[c] \notin {"idle", "redirect", "validate"},
         Service!MayFail(req[c]), Fail(c, 500)
  PROVE  Answers(c)
<1>1. Service!AllowedReply(Service!Failed(500), req[c], gone[c])
  BY LookupRequest DEF Service!AllowedReply
<1> QED BY <1>1 DEF Answers, Fail

LEMMA NothingFound ==
  ASSUME TypeOK, NEW c \in Conn, pc[c] \notin {"idle", "redirect", "validate"},
         ~Answerable(req[c].id), Fail(c, 404)
  PROVE  Answers(c)
<1>1. Service!AllowedReply(Service!Failed(404), req[c], gone[c])
  BY LookupRequest, SameLookups DEF Service!AllowedReply, Service!GoodReply
<1> QED BY <1>1 DEF Answers, Fail

LEMMA SentAnswer ==
  ASSUME TypeOK, NEW c \in Conn, pc[c] \notin {"idle", "redirect", "validate"},
         NEW r, Answerable(req[c].id), IsAnswer(r, req[c].id, req[c].isil), Encodable(r),
         Finish(c, Service!Ok(r))
  PROVE  Answers(c)
<1>1. Service!Ok(r).status = 200 /\ Service!Ok(r).body = r
  BY DEF Service!Ok
<1>2. Service!AllowedReply(Service!Ok(r), req[c], gone[c])
  BY <1>1, LookupRequest, SameLookups, SameAnswers, SameEncodable
     DEF Service!AllowedReply, Service!GoodReply
<1> QED BY <1>2 DEF Answers

(* A response that is not JSON has a document that is not.                 *)
LEMMA NotEncodable ==
  ASSUME TypeOK, NEW c \in Conn, pc[c] \notin {"idle", "redirect", "validate"},
         NEW r \in Response, Answerable(req[c].id), IsFullAnswer(Unfiltered(r), req[c].id),
         ~Encodable(r)
  PROVE  Service!MayFail(req[c])
<1>1. PICK x \in Documents(r) : BlobOf(x) \in {NotJson}
  BY DEF Encodable
<1>2. Service!SomeBlob(req[c].id, {NotJson})
  BY <1>1, BadDocument
<1> QED BY <1>2, LookupRequest, SameLookups DEF Service!MayFail

-----------------------------------------------------------------------------
LEMMA RedirectGood ==
  ASSUME IInv, NEW c \in Conn, HandleDOI(c)
  PROVE  GoodStep(c)
<1>1. TypeOK /\ req' = req /\ pc[c] = "redirect"
  BY DEF IInv, HandleDOI, request, At
<1>2. req[c].kind = "doi"
  BY <1>1 DEF TypeOK, Routed, Service!Redirection
<1>3. CASE gone[c] /\ Finish(c, Service!Abandoned)
  <2>1. Service!AllowedReply(Service!Abandoned, req[c], gone[c])
    BY <1>3 DEF Service!AllowedReply
  <2> QED BY <1>1, <1>3, <2>1, AnswerIsGood DEF Answers
<1>4. CASE (DbFaults \/ ~KnownDoi(req[c].doi)) /\ Fail(c, 404)
  <2>1. Service!AllowedReply(Service!Failed(404), req[c], gone[c])
    BY <1>2, <1>4, SameLookups DEF Service!AllowedReply, Service!GoodReply
  <2> QED BY <1>1, <1>4, <2>1, AnswerIsGood DEF Answers, Fail
<1>5. CASE KnownDoi(req[c].doi) /\ Finish(c, Service!Moved(FirstId(req[c].doi)))
  <2>1. Service!AllowedReply(Service!Moved(FirstId(req[c].doi)), req[c], gone[c])
    BY <1>2, <1>5, SameLookups DEF Service!AllowedReply, Service!GoodReply
  <2> QED BY <1>1, <1>5, <2>1, AnswerIsGood DEF Answers
<1> QED BY <1>3, <1>4, <1>5 DEF HandleDOI

LEMMA ValidateGood ==
  ASSUME IInv, NEW c \in Conn, Validate(c)
  PROVE  GoodStep(c)
<1>1. TypeOK /\ req' = req /\ pc[c] = "validate"
  BY DEF IInv, Validate, request, At
<1>2. CASE req[c].isil = BadIsil /\ Fail(c, 400)
  <2>1. req[c].kind = "id"
    BY <1>1 DEF TypeOK, Routed, Service!Lookup
  <2>2. Service!AllowedReply(Service!Failed(400), req[c], gone[c])
    BY <1>2, <2>1 DEF Service!AllowedReply, Service!GoodReply
  <2> QED BY <1>1, <1>2, <2>2, AnswerIsGood DEF Answers, Fail
<1>3. CASE Goto(c, IF CacheEnabled THEN "cache" ELSE "resolve") /\ UNCHANGED local
  <2>1. (IF CacheEnabled THEN "cache" ELSE "resolve") \in Label \ {"idle", "filter", "send"}
    BY DEF Label
  <2> QED BY <1>1, <1>3, <2>1, GotoIsGood DEF local
<1> QED BY <1>2, <1>3 DEF Validate

LEMMA ServeFromCacheGood ==
  ASSUME IInv, NEW c \in Conn, ServeFromCache(c)
  PROVE  GoodStep(c)
<1> DEFINE i == req[c].id
<1>1. TypeOK /\ req' = req /\ pc[c] = "cache"
  BY DEF IInv, ServeFromCache, request, At
<1>2. req[c].kind = "id" /\ i \in Id
  BY <1>1, LookupRequest
<1>3. Cache!Hit(i) => /\ Answerable(i) /\ IsAnswer(rows[i], i, NoIsil)
                      /\ rows[i] \in Response /\ Encodable(rows[i])
  BY <1>1, <1>2 DEF IInv, CacheSound, Cache!Hit, TypeOK, Cache!CacheTypeOK
<1>4. CASE Goto(c, "resolve") /\ UNCHANGED local
  BY <1>1, <1>4, GotoIsGood DEF Label, local
<1>5. CASE Cache!Hit(i) /\ ~Tailored(c) /\ Finish(c, Service!Ok(rows[i]))
  BY <1>1, <1>3, <1>5, SentAnswer, AnswerIsGood DEF Tailored
<1>6. CASE /\ Cache!Hit(i)
           /\ Tailored(c)
           /\ resp' = [resp EXCEPT ![c] = rows[i]]
           /\ docs' = [docs EXCEPT ![c] = Documents(rows[i])]
           /\ Goto(c, "filter")
           /\ UNCHANGED <<outbound, inbound, unasked, ids>>
  <2>1. Deliver(c, rows[i])
    BY <1>6 DEF Deliver
  <2> QED BY <1>1, <1>3, <1>6, <2>1, DeliverIsGood
<1>7. CASE CacheFaults /\ Fail(c, 500)
  BY <1>1, <1>7, Excused, AnswerIsGood DEF Service!MayFail
<1> QED BY <1>4, <1>5, <1>6, <1>7 DEF ServeFromCache

LEMMA ResolveIdGood ==
  ASSUME IInv, NEW c \in Conn, ResolveId(c)
  PROVE  GoodStep(c)
<1>1. TypeOK /\ req' = req /\ pc[c] = "resolve"
  BY DEF IInv, ResolveId, request, At
<1>2. CASE QueryFails(c, Service!Abandoned)
  BY <1>1, <1>2, FailedQuery, AnswerIsGood
<1>3. CASE ~KnownId(req[c].id) /\ Fail(c, 404)
  BY <1>1, <1>3, NothingFound, AnswerIsGood DEF Answerable
<1>4. CASE /\ resp' = [resp EXCEPT ![c].doi = FirstDoi(req[c].id)]
           /\ Goto(c, "edges")
           /\ UNCHANGED <<outbound, inbound, unasked, ids, docs>>
  BY <1>1, <1>4, GotoIsGood DEF Label
<1> QED BY <1>2, <1>3, <1>4 DEF ResolveId

LEMMA FindEdgesGood ==
  ASSUME IInv, NEW c \in Conn, FindEdges(c)
  PROVE  GoodStep(c)
<1>1. TypeOK /\ req' = req /\ pc[c] = "edges"
  BY DEF IInv, FindEdges, request, At
<1>2. resp[c].doi = FirstDoi(req[c].id)
  BY <1>1 DEF IInv, NothingDropsOut, Progress, EmptyResponse
<1>3. CASE QueryFails(c, Service!Abandoned)
  BY <1>1, <1>3, FailedQuery, AnswerIsGood
<1>4. CASE Related(resp[c].doi) = {} /\ Fail(c, 404)
  BY <1>1, <1>2, <1>4, NothingFound, AnswerIsGood DEF Answerable
<1>5. CASE Goto(c, "map") /\ UNCHANGED <<docs, resp>>
  BY <1>1, <1>5, GotoIsGood DEF Label
<1> QED BY <1>3, <1>4, <1>5 DEF FindEdges

LEMMA MapBackGood ==
  ASSUME IInv, NEW c \in Conn, MapBack(c)
  PROVE  GoodStep(c)
<1>1. TypeOK /\ req' = req /\ pc[c] = "map"
  BY DEF IInv, MapBack, request, At
<1>2. CASE QueryFails(c, Service!Failed(500))
  BY <1>1, <1>2, FailedQuery, AnswerIsGood
<1>3. CASE UNCHANGED <<pc, reply, docs, resp>>
  <2>1. \A e \in Conn : Untouched(e)
    BY <1>1, <1>3 DEF Untouched
  <2>2. Tailoring(c)'
    BY <1>1, <1>3 DEF Tailoring
  <2> QED BY <1>3, <2>1, <2>2 DEF GoodStep, GoesOn
<1>4. CASE /\ \E v : resp' = [resp EXCEPT ![c] = v]
           /\ Goto(c, "fetch")
           /\ UNCHANGED docs
  BY <1>1, <1>4, GotoIsGood DEF Label
<1> QED BY <1>2, <1>3, <1>4 DEF MapBack

LEMMA FetchGood ==
  ASSUME IInv, NEW c \in Conn, FetchDocument(c)
  PROVE  GoodStep(c)
<1> DEFINE i == req[c].id
<1>1. TypeOK /\ req' = req /\ pc[c] = "fetch"
  BY DEF IInv, FetchDocument, request, At
<1>2. Answerable(i) /\ ids[c] \subseteq MapToLocal(Related(FirstDoi(i)))
  BY <1>1 DEF IInv, NothingDropsOut, Progress, EdgesKnown, PartialAnswer
<1>3. PICK n \in ids[c] : FetchFails(c, n) \/ FetchSucceeds(c, n)
  BY DEF FetchDocument
<1>4. CASE FetchFails(c, n)
  <2>1. n \in Service!RowsOf(i) /\ Service!FetchMayFail(IdMap[n].k)
    BY <1>2, <1>3, <1>4, SameLookups, SameFetches DEF FetchFails
  <2>2. Service!MayFail(req[c])
    BY <1>1, <1>2, <2>1, LookupRequest, SameLookups DEF Service!MayFail
  <2> QED BY <1>1, <1>4, <2>2, Excused, AnswerIsGood DEF FetchFails
<1>5. CASE FetchSucceeds(c, n)
  <2>1. (\E v : resp' = [resp EXCEPT ![c] = v]) /\ UNCHANGED <<pc, reply, docs>>
    BY <1>5 DEF FetchSucceeds
  <2>2. \A e \in Conn \ {c} : Untouched(e)
    BY <1>1, <2>1, GotoOthers
  <2>3. Tailoring(c)'
    BY <1>1, <2>1 DEF Tailoring
  <2> QED BY <2>1, <2>2, <2>3 DEF GoodStep, GoesOn
<1> QED BY <1>3, <1>4, <1>5

LEMMA CompleteGood ==
  ASSUME IInv, NEW c \in Conn, Complete(c)
  PROVE  GoodStep(c)
<1> DEFINE i == req[c].id
           r == resp[c]
           u == UpdateCounts(r)
<1>1. TypeOK /\ req' = req /\ pc[c] = "fetch" /\ ids[c] = {}
  BY DEF IInv, Complete, request, At
<1>2. /\ Answerable(i) /\ PartialAnswer(r, i, {}) /\ r.institution = NoIsil
      /\ r \in Response /\ u \in Response
  BY <1>1, CountersType DEF IInv, NothingDropsOut, Progress, EdgesKnown, TypeOK
<1>3. IsAnswer(u, i, NoIsil)
  <2>1. PartialAnswer(u, i, {}) /\ u.institution = NoIsil /\ u.extra = CountsOf(u)
    BY <1>2, CountsKeepLists DEF PartialAnswer
  <2> HIDE DEF u
  <2> QED BY <1>2, <2>1, FullAnswerIsAnswer
<1>4. CASE /\ resp' = [resp EXCEPT ![c] = u]
           /\ Goto(c, "store")
           /\ UNCHANGED <<outbound, inbound, unasked, ids, docs>>
  <2>1. \E v : resp' = [resp EXCEPT ![c] = v]
    BY <1>4
  <2> QED BY <1>1, <1>4, <2>1, GotoIsGood DEF Label
<1>5. CASE Deliver(c, u)
  BY <1>1, <1>2, <1>3, <1>5, DeliverIsGood
<1> QED BY <1>4, <1>5 DEF Complete

LEMMA StoreGood ==
  ASSUME IInv, NEW c \in Conn, StoreResponse(c)
  PROVE  GoodStep(c)
<1> DEFINE i == req[c].id
           r == [resp[c] EXCEPT !.cached = TRUE]
<1>1. TypeOK /\ req' = req /\ pc[c] = "store"
  BY DEF IInv, StoreResponse, request, At
<1>2. Answerable(i) /\ IsAnswer(resp[c], i, NoIsil) /\ resp[c] \in Response
  BY <1>1 DEF IInv, NothingDropsOut, Progress, TypeOK
<1>3. r \in Response
  BY <1>2 DEF Response
<1>4. IsAnswer(r, i, NoIsil)
  BY <1>2, CachedIsAnswer
<1> HIDE DEF r
<1>5. CASE ~Encodable(r) /\ Fail(c, 500)
  BY <1>1, <1>2, <1>3, <1>4, <1>5, AnswerIsFull, NotEncodable, Excused, AnswerIsGood
<1>6. CASE Deliver(c, r)
  BY <1>1, <1>2, <1>3, <1>4, <1>6, DeliverIsGood
<1>7. CASE Cache!StatementFails /\ Fail(c, 500)
  BY <1>1, <1>7, Excused, AnswerIsGood DEF Cache!StatementFails, Service!MayFail
<1> QED BY <1>5, <1>6, <1>7 DEF StoreResponse, r

LEMMA SendGood ==
  ASSUME ServiceInv, NEW c \in Conn, Send(c)
  PROVE  GoodStep(c)
<1> DEFINE i == req[c].id
<1>1. TypeOK /\ req' = req /\ pc[c] = "send"
  BY DEF ServiceInv, IInv, Send, request, At
<1>2. ReadyToSend(c) /\ resp[c] \in Response
  BY <1>1 DEF ServiceInv, Tailoring, TypeOK
<1>3. CASE ~Encodable(resp[c]) /\ Fail(c, 500)
  <2>1. Answerable(i) /\ IsFullAnswer(Unfiltered(resp[c]), i)
    BY <1>2 DEF ReadyToSend, IsAnswer
  <2> QED BY <1>1, <1>2, <1>3, <2>1, NotEncodable, Excused, AnswerIsGood
<1>4. CASE Encodable(resp[c]) /\ Finish(c, Service!Ok(resp[c]))
  BY <1>1, <1>2, <1>4, SentAnswer, AnswerIsGood DEF ReadyToSend
<1> QED BY <1>3, <1>4 DEF Send

LEMMA FilterGood ==
  ASSUME ServiceInv, FieldsGiven, NEW c \in Conn, FilterDocument(c)
  PROVE  GoodStep(c)
<1> DEFINE i == req[c].id
           s == req[c].isil
           r == resp[c]
<1>1. TypeOK /\ req' = req /\ pc[c] = "filter"
  BY DEF ServiceInv, IInv, FilterDocument, request, At
<1>2. Filtering(c) /\ r \in Response
  BY <1>1 DEF ServiceInv, Tailoring, TypeOK
<1>3. PICK x \in docs[c], left \in pool \cup {{}} : \E p \in {pool, pool \ {left}} :
        RejectDocument(c, x, p) \/ JudgeDocument(c, x, left, p)
  BY DEF FilterDocument
<1>4. x \in Documents(r) /\ x \in Doc /\ IsFullAnswer(Unfiltered(r), i) /\ Answerable(i)
  BY <1>2, <1>3, AnswerDocuments DEF Filtering
<1>5. CASE BlobOf(x) \in BadBlob /\ Fail(c, 500)
  <2>1. Service!SomeBlob(i, {NotJson}) \/ Service!SomeBlob(i, {IllTyped})
    <3>1. BlobOf(x) \in {NotJson} \/ BlobOf(x) \in {IllTyped}
      BY <1>5 DEF BadBlob
    <3> QED BY <1>2, <1>4, <3>1, BadDocument
  <2>2. Service!MayFail(req[c])
    BY <1>1, <1>2, <1>4, <2>1, LookupRequest, SameLookups
       DEF Service!MayFail, Filtering, Tailored
  <2> QED BY <1>1, <1>5, <2>2, Excused, AnswerIsGood
<1>6. ASSUME BlobOf(x) \notin BadBlob,
             resp' = [resp EXCEPT ![c] = IF s \in Decode(left, BlobOf(x)) THEN @
                                         ELSE MoveToUnmatched(@, x)],
             docs' = [docs EXCEPT ![c] = @ \ {x}],
             UNCHANGED <<pc, reply>>
      PROVE  GoodStep(c)
  <2>1. Decode(left, BlobOf(x)) = Holdings(x)
    <3>1. BlobOf(x) # NoField
      BY <1>4 DEF FieldsGiven, BlobOf, Doc, Holders
    <3> QED BY <1>6, <3>1 DEF Decode, Holdings
  <2>2. \A e \in Conn \ {c} : Untouched(e)
    BY <1>1, <1>6, GotoOthers
  <2>3. /\ docs'[c] = docs[c] \ {x} /\ req'[c] = req[c] /\ pc'[c] = "filter"
        /\ resp'[c] = IF s \in Holdings(x) THEN r ELSE MoveToUnmatched(r, x)
    BY <1>1, <1>6, <2>1 DEF TypeOK
  <2>4. CASE s \in Holdings(x)
    <3>1. resp'[c] = r
      BY <2>3, <2>4
    <3>2. Filtering(c)'
      <4> HIDE DEF r, s, i
      <4>1. \A y \in Documents(r) \ (docs[c] \ {x}) : s \in Holdings(y)
        BY <1>2, <2>4 DEF Filtering, r, s
      <4> QED BY <1>2, <2>3, <3>1, <4>1 DEF Filtering, Tailored, r, s, i
    <3> QED BY <1>6, <2>2, <2>3, <3>2 DEF GoodStep, GoesOn, Tailoring
  <2>5. CASE s \notin Holdings(x)
    <3> DEFINE u == MoveToUnmatched(r, x)
    <3>1. resp'[c] = u
      BY <2>3, <2>5
    <3>2. /\ IsFullAnswer(Unfiltered(u), i)
          /\ Documents(u) = Documents(r) \ {x}
          /\ (u.unmatchedCiting \cup u.unmatchedCited) \cap Doc
               = ((r.unmatchedCiting \cup r.unmatchedCited) \cap Doc) \cup {x}
      BY <1>2, <1>4, MovedIsAnswer
    <3> HIDE DEF u
    <3>3. Filtering(c)'
      <4>1. docs[c] \ {x} \subseteq Documents(u)
        BY <1>2, <3>2 DEF Filtering
      <4>2. \A y \in Documents(u) \ (docs[c] \ {x}) : s \in Holdings(y)
        BY <1>2, <3>2 DEF Filtering
      <4>3. \A y \in (u.unmatchedCiting \cup u.unmatchedCited) \cap Doc : s \notin Holdings(y)
        <5> HIDE DEF r
        <5> QED BY <1>2, <2>5, <3>2 DEF Filtering, r
      <4> QED BY <1>2, <2>3, <3>1, <3>2, <4>1, <4>2, <4>3 DEF Filtering, Tailored
    <3> QED BY <1>6, <2>2, <2>3, <3>3 DEF GoodStep, GoesOn, Tailoring
  <2> QED BY <2>4, <2>5
<1> QED BY <1>3, <1>5, <1>6 DEF RejectDocument, JudgeDocument

LEMMA FinishFilterGood ==
  ASSUME ServiceInv, NEW c \in Conn, FinishFilter(c)
  PROVE  GoodStep(c)
<1> DEFINE i == req[c].id
           s == req[c].isil
           r == resp[c]
           t == [r EXCEPT !.institution = s]
           u == UpdateCounts(t)
<1>1. TypeOK /\ req' = req /\ pc[c] = "filter" /\ docs[c] = {}
  BY DEF ServiceInv, IInv, FinishFilter, request, At
<1>2. Filtering(c) /\ r \in Response
  BY <1>1 DEF ServiceInv, Tailoring, TypeOK
<1>3. t \in Response /\ u \in Response
  BY <1>1, <1>2, Validated, CountersType DEF Response
<1>4. /\ u.doi = r.doi /\ u.institution = s /\ u.extra = CountsOf(u)
      /\ u.citing = r.citing /\ u.cited = r.cited
      /\ u.unmatchedCiting = r.unmatchedCiting /\ u.unmatchedCited = r.unmatchedCited
  <2>1. /\ t.doi = r.doi /\ t.institution = s
        /\ t.citing = r.citing /\ t.cited = r.cited
        /\ t.unmatchedCiting = r.unmatchedCiting /\ t.unmatchedCited = r.unmatchedCited
    BY <1>2 DEF Response
  <2> HIDE DEF t
  <2> QED BY <1>3, <2>1, CountsKeepLists
<1>5. pc'[c] = "send" /\ resp'[c] = u /\ req'[c] = req[c] /\ Goto(c, "send")
  BY <1>1 DEF FinishFilter, Goto, TypeOK
<1>6. /\ docs' = docs
      /\ \E v : resp' = [resp EXCEPT ![c] = v]
  BY DEF FinishFilter
<1> HIDE DEF t, u
<1>7. IsFullAnswer(Unfiltered(u), i)
  <2>1. IsFullAnswer(Unfiltered(r), i)
    BY <1>2 DEF Filtering
  <2> HIDE DEF r
  <2> QED BY <1>2, <1>3, <1>4, <2>1, SameLists
<1>8. IsAnswer(u, i, s)
  <2>1. s # NoIsil
    BY <1>2 DEF Filtering, Tailored
  <2>2. \A x \in Documents(u) : s \in Holdings(x)
    BY <1>1, <1>2, <1>4 DEF Filtering, Documents
  <2>3. \A x \in (u.unmatchedCiting \cup u.unmatchedCited) \cap Doc : s \notin Holdings(x)
    BY <1>2, <1>4 DEF Filtering
  <2> QED BY <1>4, <1>7, <2>1, <2>2, <2>3 DEF IsAnswer
<1>9. Tailoring(c)'
  BY <1>2, <1>5, <1>8 DEF Tailoring, ReadyToSend, Filtering
<1> QED BY <1>1, <1>5, <1>6, <1>9, GotoOthers DEF GoodStep, GoesOn, Label

LEMMA HandlerStep ==
  ASSUME ServiceInv, FieldsGiven, NEW c \in Conn, Handle(c)
  PROVE  GoodStep(c) /\ UNCHANGED request /\ pc[c] # "idle"
<1>1. GoodStep(c)
  BY RedirectGood, ValidateGood, ServeFromCacheGood, ResolveIdGood, FindEdgesGood,
     MapBackGood, FetchGood, CompleteGood, StoreGood, FilterGood, FinishFilterGood, SendGood
     DEF Handle, ServiceInv
<1>2. UNCHANGED request /\ pc[c] # "idle"
  BY DEF Handle, HandleDOI, Validate, ServeFromCache, ResolveId, FindEdges, MapBack,
         FetchDocument, Complete, StoreResponse, FilterDocument, FinishFilter, Send, At
<1> QED BY <1>1, <1>2

(* Clients and the background do not touch what is under way.              *)
LEMMA OutsideStep ==
  ASSUME ServiceInv,
         \/ UNCHANGED vars
         \/ Purge \/ WatchCache \/ CollectPool
         \/ \E c \in Conn : Cancel(c) \/ \E q \in Requests : Receive(c, q)
  PROVE  \A e \in Conn : Tailoring(e)'
<1> SUFFICES ASSUME NEW e \in Conn PROVE Tailoring(e)'
  OBVIOUS
<1>1. TypeOK /\ Tailoring(e)
  BY DEF ServiceInv, IInv
<1>2. CASE UNCHANGED vars \/ Purge \/ WatchCache \/ CollectPool
  <2>1. Untouched(e)
    BY <1>2 DEF vars, Purge, WatchCache, CollectPool, request, local, Untouched
  <2> QED BY <1>1, <2>1, UntouchedTailoring
<1>3. ASSUME NEW c \in Conn, Cancel(c) PROVE Tailoring(e)'
  <2>1. Untouched(e)
    BY <1>3 DEF Cancel, local, Untouched
  <2> QED BY <1>1, <2>1, UntouchedTailoring
<1>4. ASSUME NEW c \in Conn, NEW q \in Requests, Receive(c, q) PROVE Tailoring(e)'
  <2>1. CASE e = c
    BY <1>1, <1>4, <2>1 DEF Receive, TypeOK, Tailoring
  <2>2. CASE e # c
    <3>1. Untouched(e)
      BY <1>1, <1>4, <2>2 DEF Receive, local, Untouched, TypeOK
    <3> QED BY <1>1, <3>1, UntouchedTailoring
  <2> QED BY <2>1, <2>2
<1> QED BY <1>2, <1>3, <1>4

LEMMA ServiceInductive == FieldsGiven /\ ServiceInv /\ [Next]_vars => ServiceInv'
<1> SUFFICES ASSUME FieldsGiven, ServiceInv, [Next]_vars PROVE \A e \in Conn : Tailoring(e)'
  BY Inductive DEF ServiceInv
<1>1. ASSUME NEW c \in Conn, Handle(c) PROVE \A e \in Conn : Tailoring(e)'
  BY <1>1, HandlerStep, UntouchedTailoring DEF GoodStep, ServiceInv
<1>2. CASE \E c \in Conn : Handle(c)
  BY <1>1, <1>2
<1> QED BY <1>2, OutsideStep DEF Next

LEMMA ServiceInvInit == Init => ServiceInv
BY InitInv DEF Init, ServiceInv, Tailoring

-----------------------------------------------------------------------------
(* Every step of the server is one of the service, or none.                *)

LEMMA AnswerStep ==
  ASSUME TypeOK, NEW c \in Conn, Answers(c), UNCHANGED request, pc[c] # "idle"
  PROVE  Service!Answer(c)
<1> DEFINE busy == [d \in Conn |-> pc[d] # "idle"]
<1>1. PICK r : Finish(c, r) /\ Service!AllowedReply(r, req[c], gone[c])
  BY DEF Answers
<1>2. reply' = [reply EXCEPT ![c] = r] /\ reply'[c] = r
  BY <1>1 DEF Finish, TypeOK
<1>3. busy' = [busy EXCEPT ![c] = FALSE]
  BY <1>1 DEF Finish, TypeOK
<1> QED BY <1>1, <1>2, <1>3 DEF Service!Answer, request

LEMMA SilentStep ==
  ASSUME TypeOK, NEW c \in Conn, GoesOn(c), UNCHANGED request, pc[c] # "idle"
  PROVE  UNCHANGED Service!serviceVars
<1>1. [d \in Conn |-> pc[d] # "idle"]' = [d \in Conn |-> pc[d] # "idle"]
  BY DEF GoesOn, Goto, TypeOK
<1> QED BY <1>1 DEF GoesOn, Goto, request, Service!serviceVars

LEMMA StepSimulation ==
  ASSUME FieldsGiven, ServiceInv, [Next]_vars
  PROVE  [Service!ServiceNext]_(Service!serviceVars)
<1>1. TypeOK
  BY DEF ServiceInv, IInv
<1>2. CASE UNCHANGED vars \/ Purge \/ WatchCache \/ CollectPool
  BY <1>2 DEF vars, Purge, WatchCache, CollectPool, request, Service!serviceVars
<1>3. ASSUME NEW c \in Conn, Cancel(c) PROVE Service!Leave(c)
  BY <1>1, <1>3 DEF Cancel, At, Service!Leave
<1>4. ASSUME NEW c \in Conn, NEW q \in Requests, Receive(c, q) PROVE Service!Accept(c)
  <2>1. q \in Service!Request
    BY ServerAssumption
  <2>2. [d \in Conn |-> pc[d] # "idle"]'
          = [[d \in Conn |-> pc[d] # "idle"] EXCEPT ![c] = TRUE]
    BY <1>1, <1>4 DEF Receive, TypeOK
  <2> QED BY <1>4, <2>1, <2>2 DEF Receive, At, Service!Accept
<1>5. ASSUME NEW c \in Conn, Handle(c)
      PROVE  Service!Answer(c) \/ UNCHANGED Service!serviceVars
  BY <1>1, <1>5, HandlerStep, AnswerStep, SilentStep DEF GoodStep
<1> QED BY <1>2, <1>3, <1>4, <1>5 DEF Next, Service!ServiceNext

LEMMA InitSimulation == Init => Service!ServiceInit
<1> SUFFICES ASSUME Init PROVE Service!ServiceInit
  OBVIOUS
<1>1. Requests \subseteq Service!Request
  BY ServerAssumption
<1>2. [d \in Conn |-> pc[d] # "idle"] = [d \in Conn |-> FALSE]
  BY DEF Init
<1> QED BY <1>1, <1>2 DEF Init, Service!ServiceInit

(* The server implements the service (server.go:417-597): whatever is in   *)
(* the cache, whoever else is served, whenever the client goes away and    *)
(* whatever fails, a request gets one reply, which is the answer that the  *)
(* databases give for it, and an error only with a reason.                 *)
THEOREM ServerImplementsService ==
  ASSUME FieldsGiven
  PROVE  Spec => ServiceRefinement
<1>1. Init => Service!ServiceInit
  BY InitSimulation
<1>2. ServiceInv /\ [Next]_vars => ServiceInv'
  BY ServiceInductive
<1>3. ServiceInv /\ [Next]_vars => [Service!ServiceNext]_(Service!serviceVars)
  BY StepSimulation
<1> QED
  BY <1>1, <1>2, <1>3, ServiceInvInit, PTL DEF Spec, ServiceRefinement, Service!ServiceSpec

-----------------------------------------------------------------------------
(* What a tailored reply lists.                                            *)

(* A reply stays until the next request of the connection.                 *)
Replied(c) ==
  /\ pc[c] # "idle" => reply[c].status # 200
  /\ reply[c].status = 200 => IsAnswer(reply[c].body, req[c].id, req[c].isil)

ReplyInv == ServiceInv /\ \A c \in Conn : Replied(c)

LEMMA AllowedAnswer ==
  ASSUME NEW r, NEW q, NEW left, Service!AllowedReply(r, q, left), r.status = 200
  PROVE  IsAnswer(r.body, q.id, q.isil)
<1>1. /\ \A s : Service!Failed(s).status = s
      /\ \A i : Service!Moved(i).status = 307
      /\ Service!Abandoned.status = 499
  BY DEF Service!Failed, Service!Moved, Service!Abandoned
<1>2. Service!GoodReply(r, q)
  BY <1>1 DEF Service!AllowedReply
<1> QED BY <1>1, <1>2, SameAnswers DEF Service!GoodReply

LEMMA ReplyInductive == FieldsGiven /\ ReplyInv /\ [Next]_vars => ReplyInv'
<1> SUFFICES ASSUME FieldsGiven, ReplyInv, [Next]_vars, NEW e \in Conn PROVE Replied(e)'
  BY ServiceInductive DEF ReplyInv
<1>1. TypeOK /\ ServiceInv /\ Replied(e)
  BY DEF ReplyInv, ServiceInv, IInv
<1>2. CASE UNCHANGED <<pc, reply, req>>
  BY <1>1, <1>2 DEF Replied
<1>3. ASSUME NEW c \in Conn, Cancel(c) PROVE Replied(e)'
  <2>1. UNCHANGED <<pc, reply, req>>
    BY <1>3 DEF Cancel
  <2> QED BY <1>2, <2>1
<1>4. ASSUME NEW c \in Conn, NEW q \in Requests, Receive(c, q) PROVE Replied(e)'
  <2>1. CASE e = c
    <3>1. reply'[e] = Service!NoReply /\ Service!NoReply.status # 200
      BY <1>1, <1>4, <2>1 DEF Receive, TypeOK, Service!NoReply, Service!Failed
    <3> QED BY <3>1 DEF Replied
  <2>2. CASE e # c
    BY <1>1, <1>4, <2>2 DEF Receive, TypeOK, Replied
  <2> QED BY <2>1, <2>2
<1>5. ASSUME NEW c \in Conn, Handle(c) PROVE Replied(e)'
  <2>1. GoodStep(c) /\ req' = req /\ pc[c] # "idle"
    BY <1>1, <1>5, HandlerStep DEF request
  <2>2. CASE GoesOn(c)
    <3>1. reply' = reply /\ (pc'[e] # "idle" => pc[e] # "idle")
      BY <1>1, <2>1, <2>2 DEF GoesOn, Goto, TypeOK
    <3> QED BY <1>1, <2>1, <3>1 DEF Replied
  <2>3. ASSUME NEW r, Finish(c, r), Service!AllowedReply(r, req[c], gone[c])
        PROVE  Replied(e)'
    <3>1. CASE e = c
      <4>1. pc'[e] = "idle" /\ reply'[e] = r
        BY <1>1, <2>3, <3>1 DEF Finish, TypeOK
      <4> QED BY <2>1, <2>3, <3>1, <4>1, AllowedAnswer DEF Replied
    <3>2. CASE e # c
      <4>1. pc'[e] = pc[e] /\ reply'[e] = reply[e]
        BY <1>1, <2>3, <3>2 DEF Finish, TypeOK
      <4> QED BY <1>1, <2>1, <4>1 DEF Replied
    <3> QED BY <3>1, <3>2
  <2> QED BY <2>1, <2>2, <2>3 DEF GoodStep, Answers
<1>6. CASE UNCHANGED vars \/ Purge \/ WatchCache \/ CollectPool
  <2>1. UNCHANGED <<pc, reply, req>>
    BY <1>6 DEF vars, Purge, WatchCache, CollectPool, request
  <2> QED BY <1>2, <2>1
<1> QED BY <1>3, <1>4, <1>5, <1>6 DEF Next

LEMMA ReplyInvInit == Init => ReplyInv
<1> SUFFICES ASSUME Init PROVE \A c \in Conn : Replied(c)
  BY ServiceInvInit DEF ReplyInv
<1>1. Service!NoReply.status # 200
  BY DEF Service!NoReply, Service!Failed
<1> QED BY <1>1 DEF Init, Replied

(* A reply tailored to an institution lists only documents that it holds   *)
(* (server.go:142-149, 442-444), as long as no document comes without the  *)
(* field: such documents are all that makes the filter go wrong.           *)
THEOREM FilterIsRight ==
  ASSUME FieldsGiven
  PROVE  Spec => []FilterByIndexData
<1>1. ReplyInv /\ [Next]_vars => ReplyInv'
  BY ReplyInductive
<1>2. ReplyInv => FilterByIndexData
  BY DEF ReplyInv, Replied, FilterByIndexData, IsAnswer, Tailored
<1> QED BY <1>1, <1>2, ReplyInvInit, PTL DEF Spec
=============================================================================
