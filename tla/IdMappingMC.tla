------------------------------ MODULE IdMappingMC ------------------------------
(***************************************************************************)
(* A few documents for IdMapping: with a DOI in a text field, in two, with *)
(* and without DOIs of their own, under a key that is ignored, or in none. *)
(***************************************************************************)
EXTENDS IdMapping

Text(k, m) == [key |-> k, kind |-> "text", match |-> m]
List(k, m) == [key |-> k, kind |-> "list", match |-> m]
Document(i, f, g) == [id |-> i, fields |-> f, given |-> g]

MCOrder == <<"main", "slub-production", "ai">>

(* "a." and "a" are the same DOI with and without a full stop.             *)
MCPostProcess == [m \in Match |-> IF m = "a." THEN "a" ELSE m]

MCDocs ==
  [s \in Source |->
     CASE s = "main" ->
            { Document("m1", {Text("title", "a."), Text("url", "b")}, <<>>),
              Document("m2", {Text("barcode_de105", "b"), Text("title", NoMatch)}, <<>>) }
       [] s = "slub-production" ->
            { Document("s1", {Text("url", "b"), Text("note", "a")}, <<"a">>),
              Document("s2", {Text("title", "a")}, <<>>) }
       [] s = "ai" ->
            { Document("a1", {}, <<"b", "a">>), Document("a2", {}, <<"a">>),
              Document("a3", {Text("url", "b")}, <<>>) }]

(* m3 has its DOI in a field with several values.                          *)
MCDocsWithList == [MCDocs EXCEPT !["main"] = @ \cup
                     { Document("m3", {List("marc024a_ct_mv", "b")}, <<>>) }]

MCLine == [id : DocId, doi : Doi]
=============================================================================
