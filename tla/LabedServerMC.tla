----------------------------- MODULE LabedServerMC -----------------------------
(***************************************************************************)
(* A small library for LabedServer.  Document a cites b, which has two     *)
(* local ids, and is cited by c; a and b cite each other; each list also   *)
(* has a DOI that no local id maps to.                                     *)
(***************************************************************************)
EXTENDS LabedServer, TLC

MCIdMap == << [k |-> "i1", v |-> "a"], [k |-> "i2", v |-> "b"],
              [k |-> "i3", v |-> "b"], [k |-> "i4", v |-> "c"],
              [k |-> "i5", v |-> "d"] >>

MCOciMap == { [k |-> "a", v |-> "b"], [k |-> "b", v |-> "a"],
              [k |-> "c", v |-> "a"], [k |-> "a", v |-> "x"],
              [k |-> "y", v |-> "a"] }

(* Both backends know i2, and disagree about it. *)
MCBackends == << [i \in {"i1", "i2"} |-> {"DE-14"}],
                 [i \in {"i2", "i3", "i4"} |->
                    IF i = "i4" THEN {"DE-14", "DE-15"} ELSE {"DE-15"}] >>

(* i4 has no document: the citation and id databases are newer.            *)
MissingBlob == << MCBackends[1], [i \in {"i2", "i3"} |-> {"DE-15"}] >>

(* i4's document does not say who holds it.                                *)
FieldlessBlob == << MCBackends[1], [MCBackends[2] EXCEPT !["i4"] = NoField] >>

(***************************************************************************)
(* A chain: a and c cite b, d cites c.  Document c is in the second        *)
(* backend, b is in both and the institution field of the first version is *)
(* no list, d is in the first backend and is not JSON.                     *)
(***************************************************************************)
ChainIdMap == << [k |-> "i1", v |-> "a"], [k |-> "i2", v |-> "b"],
                 [k |-> "i3", v |-> "c"], [k |-> "i4", v |-> "d"] >>

ChainOciMap == { [k |-> "a", v |-> "b"], [k |-> "c", v |-> "b"], [k |-> "d", v |-> "c"] }

TroubledBlobs == << [i \in {"i2", "i4"} |-> IF i = "i2" THEN IllTyped ELSE NotJson],
                    [i \in {"i2", "i3"} |-> {"DE-15"}] >>

Get(i) == [kind |-> "id", id |-> i, isil |-> NoIsil]
GetFor(i, s) == [kind |-> "id", id |-> i, isil |-> s]
GetDoi(d) == [kind |-> "doi", doi |-> d]

(* Every way a request can end.                                            *)
AllRequests == {Get("i1"), GetFor("i1", "DE-15"), GetFor("i1", BadIsil), Get("i5"),
                Get("i9"), GetDoi("b"), GetDoi("z")}

(* With the first backend faulty: always answered, with c; answered or     *)
(* failed, depending on which b is fetched; always failed, because of d.   *)
TroubledRequests == {GetFor("i4", "DE-15"), GetFor("i1", "DE-15"), Get("i3")}

Symmetry == Permutations(Conn)
=============================================================================
