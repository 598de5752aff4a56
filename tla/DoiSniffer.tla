------------------------------ MODULE DoiSniffer ------------------------------
(***************************************************************************)
(* Which DOI a SOLR document is mapped to: go/ckit/doi/sniffer.go with the *)
(* settings of cmd/doisniffer, and the jq programs behind it, both from    *)
(* python/labe/tasks.py.  A document has an id, text and list fields, and  *)
(* perhaps DOIs of its own in "doi_str_mv".  Of a field only the first     *)
(* match of the pattern counts.                                            *)
(***************************************************************************)
EXTENDS Integers, Sequences

CONSTANTS Source,      \* the indices
          Docs,        \* the documents of an index
          DocId, Doi,
          Match,       \* strings that the pattern finds
          PostProcess, \* what is left of a match without trailing characters
          NoMatch,
          IgnoredKey   \* the keys that flag -K names

Field == [key : STRING, kind : {"text", "list"}, match : Match \cup {NoMatch}]
DocOf(x) == /\ x.id \in DocId
            /\ x.fields \subseteq Field
            /\ x.given \in Seq(Doi)

ASSUME SnifferAssumption ==
  /\ PostProcess \in [Match -> Doi]
  /\ NoMatch \notin Match
  /\ \A s \in Source : \A x \in Docs[s] : DocOf(x)
  /\ \A s, t \in Source : \A x \in Docs[s], y \in Docs[t] :
       x.id = y.id => s = t /\ x = y

Matching(x) == {f \in x.fields : f.match # NoMatch /\ f.key \notin IgnoredKey}

(* SearchMap: json.Unmarshal makes []interface{} of a list, never the      *)
(* []string that the switch has a case for.                                *)
SearchMap(x) == {f.match : f \in {g \in Matching(x) : g.kind = "text"}}

(* Mutant: matches as they are. *)
RawMatches(x) == SearchMap(x)

(* Run: a document without a match is skipped, one with DOIs of its own is *)
(* passed on as it is; else the matches become its DOIs, in any order.     *)
Sniffed(x) == {PostProcess[m] : m \in SearchMap(x)}
FirstAfterSniffing(x) ==
  IF Sniffed(x) # {} /\ x.given # <<>> THEN {x.given[1]} ELSE Sniffed(x)

(* jq: .doi_str_mv[0], which all documents of "ai" come with or without.   *)
FirstGiven(x) == IF x.given = <<>> THEN {} ELSE {x.given[1]}

(* The DOIs that a document of an index may be mapped to; none if the pipe *)
(* leaves it out.                                                          *)
FirstDois(s, x) == IF s = "ai" THEN FirstGiven(x) ELSE FirstAfterSniffing(x)
=============================================================================
