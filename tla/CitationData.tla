------------------------------ MODULE CitationData ------------------------------
(***************************************************************************)
(* The three read-only data sources of a labed server (struct Server in    *)
(* go/ckit/server.go) and the pure part of the lookup over them:           *)
(*                                                                         *)
(*   IdMap     rows of IdentifierDatabase, local id to DOI                 *)
(*   OciMap    rows of OciDatabase, citing DOI to cited DOI                *)
(*   Backends  the FetchGroup behind IndexData: one partial map from local *)
(*             id to metadata document per database, in order of priority  *)
(*                                                                         *)
(* A metadata document is abstracted to what the server looks at: whether  *)
(* it is JSON, and its "institution" field.                                *)
(***************************************************************************)
EXTENDS Integers, Sequences, FiniteSets

CONSTANTS Id, Doi, Isil, \* local ids, DOI and valid institution codes
          IdMap, OciMap, Backends,
          NoField,       \* a document without "institution"
          IllTyped,      \* JSON, but "institution" is not a list of strings
          NotJson,       \* not JSON at all
          FaultyBackends, \* backends on which a query may fail at any time
          NoDoi, NoIsil

Institutions == SUBSET Isil
BadBlob == {IllTyped, NotJson}
Blob == {NoField} \cup BadBlob \cup Institutions

IdRow == [k : Id, v : Doi]
OciRow == [k : Doi, v : Doi]

ASSUME DataAssumption ==
  /\ IsFiniteSet(Id) /\ IsFiniteSet(Doi)
  /\ IdMap \in Seq(IdRow)
  /\ OciMap \subseteq OciRow
  /\ Backends \in Seq(UNION {[S -> Blob] : S \in SUBSET Id})
  /\ FaultyBackends \subseteq DOMAIN Backends
  /\ NoDoi \notin Doi
  /\ NoIsil \notin Isil

Row == DOMAIN IdMap
Backend == DOMAIN Backends

(* SELECT v FROM map WHERE k = ?, of which GetContext takes the first row. *)
KnownId(i) == \E n \in Row : IdMap[n].k = i
FirstDoi(i) == IdMap[CHOOSE n \in Row : IdMap[n].k = i].v

(* SELECT k FROM map WHERE v = ?, likewise. *)
KnownDoi(d) == \E n \in Row : IdMap[n].v = d
FirstId(d) == IdMap[CHOOSE n \in Row : IdMap[n].v = d].k

(* The two SELECTs of edges, as the sets the handler collects from them.   *)
Outbound(d) == {e.v : e \in {f \in OciMap : f.k = d}}
Inbound(d) == {e.k : e \in {f \in OciMap : f.v = d}}
Related(d) == Outbound(d) \cup Inbound(d)

(* SELECT * FROM map WHERE v IN (?), over all batches of ds.               *)
MapToLocal(ds) == {n \in Row : IdMap[n].v \in ds}
Unmatched(ds) == ds \ {IdMap[n].v : n \in MapToLocal(ds)}

(***************************************************************************)
(* FetchGroup.Fetch: the first backend that answers wins.  A backend that  *)
(* lacks the id and a backend whose query fails look the same, so a fault  *)
(* in a backend passes the question on to the next one.  Fetched(i) is the *)
(* set of backends the answer may come from.                               *)
(***************************************************************************)
Holders(i) == {b \in Backend : i \in DOMAIN Backends[b]}
Fetched(i) == {b \in Holders(i) :
                 \A a \in Holders(i) : a < b => a \in FaultyBackends}
FetchMayFail(i) == Holders(i) \subseteq FaultyBackends

(***************************************************************************)
(* An entry of a reply is a document, named by the row of IdMap that led   *)
(* to it and the backend that served it, or a stub with just a DOI.        *)
(***************************************************************************)
Doc == {x \in [row : Row, src : Backend] : x.src \in Holders(IdMap[x.row].k)}
Stub == [doi : Doi]
Entry == Doc \cup Stub

BlobOf(x) == Backends[x.src][IdMap[x.row].k]

(* Documents that are JSON but have no "institution" name no institution.  *)
Holdings(x) == IF BlobOf(x) \in {NoField} \cup BadBlob THEN {} ELSE BlobOf(x)

Counters == [citing : Nat, cited : Nat, unmatchedCiting : Nat, unmatchedCited : Nat]

Response == [doi : Doi \cup {NoDoi},
             citing : SUBSET Doc, cited : SUBSET Doc,
             unmatchedCiting : SUBSET Entry, unmatchedCited : SUBSET Entry,
             extra : Counters, cached : BOOLEAN, institution : Isil \cup {NoIsil}]

ZeroCounters == [citing |-> 0, cited |-> 0, unmatchedCiting |-> 0, unmatchedCited |-> 0]

EmptyResponse == [doi |-> NoDoi, citing |-> {}, cited |-> {},
                  unmatchedCiting |-> {}, unmatchedCited |-> {},
                  extra |-> ZeroCounters, cached |-> FALSE, institution |-> NoIsil]

(* Mutant: the filter visits the unmatched lists as well. *)
AllLists(r) == r.citing \cup r.cited \cup r.unmatchedCiting \cup r.unmatchedCited

Documents(r) == r.citing \cup r.cited

(* Response.updateCounts *)
CountsOf(r) == [citing |-> Cardinality(r.citing), cited |-> Cardinality(r.cited),
                unmatchedCiting |-> Cardinality(r.unmatchedCiting),
                unmatchedCited |-> Cardinality(r.unmatchedCited)]
UpdateCounts(r) == [r EXCEPT !.extra = CountsOf(r)]

(* The encoder checks the documents, which are raw JSON to it.             *)
Encodable(r) == \A x \in Documents(r) : BlobOf(x) # NotJson

-----------------------------------------------------------------------------
(***************************************************************************)
(* What a correct answer is, without reference to how it is computed.      *)
(***************************************************************************)

(* A lookup has something to say if the id has a DOI that cites or is      *)
(* cited.                                                                  *)
Answerable(i) == KnownId(i) /\ Related(FirstDoi(i)) # {}

(* D holds one document for each row in R and nothing else, each from a    *)
(* backend that may have served it.                                        *)
OneDocumentPerRow(D, R) ==
  /\ {x.row : x \in D} = R
  /\ \A x, y \in D : x.row = y.row => x = y
  /\ \A x \in D : x.src \in Fetched(IdMap[x.row].k)

Stubs(ds) == {[doi |-> d] : d \in ds}

(* r is what there is of the complete answer for id i while the rows in    *)
(* rest are still to be fetched: every DOI that i's DOI cites or is cited  *)
(* by is accounted for once; a DOI that is both counts as citing.          *)
PartialAnswer(r, i, rest) ==
  LET d == FirstDoi(i)
      out == Outbound(d)
      in == Inbound(d) \ Outbound(d)
      open == Unmatched(Related(d))
  IN /\ r.doi = d
     /\ rest \subseteq MapToLocal(Related(d))
     /\ OneDocumentPerRow(r.citing, MapToLocal(out) \ rest)
     /\ OneDocumentPerRow(r.cited, MapToLocal(in) \ rest)
     /\ r.unmatchedCiting = Stubs(out \cap open)
     /\ r.unmatchedCited = Stubs(in \cap open)

IsFullAnswer(r, i) == PartialAnswer(r, i, {})

(* Undoes the institution filter: documents among the unmatched go back.   *)
Unfiltered(r) ==
  [r EXCEPT !.citing = @ \cup (r.unmatchedCiting \cap Doc),
            !.cited = @ \cup (r.unmatchedCited \cap Doc),
            !.unmatchedCiting = @ \ Doc,
            !.unmatchedCited = @ \ Doc]

(* r is the answer for id i tailored to institution s.                     *)
IsAnswer(r, i, s) ==
  /\ IsFullAnswer(Unfiltered(r), i)
  /\ r.institution = s
  /\ r.extra = CountsOf(r)
  /\ s = NoIsil => (r.unmatchedCiting \cup r.unmatchedCited) \cap Doc = {}
  /\ s # NoIsil => /\ \A x \in Documents(r) : s \in Holdings(x)
                   /\ \A x \in (r.unmatchedCiting \cup r.unmatchedCited) \cap Doc :
                        s \notin Holdings(x)
=============================================================================
