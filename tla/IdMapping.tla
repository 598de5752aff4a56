------------------------------- MODULE IdMapping -------------------------------
(***************************************************************************)
(* The tasks IdMappingTable and IdMappingDatabase of python/labe/tasks.py: *)
(* three shell pipes, one per index, append rows to one temporary file,    *)
(* which becomes the table; another pipe turns the table into a database.  *)
(* A pipe that fails ends the task, and some day it is tried again.        *)
(***************************************************************************)
EXTENDS DoiSniffer, Makta

CONSTANTS Order,   \* of the indices
          MinRows, \* ensure_minimum_file_size, in rows
          None

(* Every index has its turn, once (tasks.py:415-446).                      *)
ASSUME MappingAssumption ==
  /\ Order \in Seq(Source) \ {<<>>}
  /\ \A s \in Source : \E i \in DOMAIN Order : Order[i] = s
  /\ \A i, k \in DOMAIN Order : Order[i] = Order[k] => i = k
  /\ Line = [id : DocId, doi : Doi]
  /\ MinRows \in Nat

VARIABLES task,     \* what is being worked on
          stage,    \* the index whose documents are converted
          left,     \* those that have not been
          temp,     \* the temporary file
          idTable,  \* output of IdMappingTable
          idMapping \* output of IdMappingDatabase

tableVars == <<stage, left, temp>>
outputs == <<idTable, idMapping>>
vars == <<task, tableVars, outputs, maktaVars>>

TypeOK ==
  /\ MaktaTypeOK
  /\ task \in {"none", "table", "database"}
  /\ stage \in DOMAIN Order
  /\ left \subseteq Docs[Order[stage]]
  /\ LineBag(temp)
  /\ idTable = None \/ LineBag(idTable)
  /\ idMapping = None \/ (LineBag(idMapping.rows) /\ idMapping.indexed \subseteq Index)

Init ==
  /\ MaktaInit
  /\ task = "none"
  /\ stage = 1 /\ left = {} /\ temp = EmptyBag
  /\ idTable = None
  /\ idMapping = None

-----------------------------------------------------------------------------
(* shellout makes a temporary file for the first pipe.                     *)
StartTable ==
  /\ task = "none"
  /\ idTable = None
  /\ task' = "table"
  /\ stage' = 1
  /\ left' = Docs[Order[1]]
  /\ temp' = EmptyBag
  /\ UNCHANGED <<outputs, maktaVars>>

(* Workers take batches of documents and finish them in any order.         *)
Convert(x) ==
  /\ task = "table"
  /\ x \in left
  /\ left' = left \ {x}
  /\ LET dois == FirstDois(Order[stage], x) IN
       \/ dois = {} /\ UNCHANGED temp
       \/ \E d \in dois : temp' = temp (+) One([id |-> x.id, doi |-> d])
  /\ UNCHANGED <<task, stage, outputs, maktaVars>>

NextIndex ==
  /\ task = "table"
  /\ left = {}
  /\ stage < Len(Order)
  /\ stage' = stage + 1
  /\ left' = Docs[Order[stage + 1]]
  /\ UNCHANGED <<task, temp, outputs, maktaVars>>

(* A program in the pipe fails, and the task with it.                      *)
ConvertFails ==
  /\ task = "table"
  /\ Fault
  /\ task' = "none"
  /\ UNCHANGED <<tableVars, outputs, feed, main, final, buf, import, database>>

MoveTable ==
  /\ task = "table"
  /\ left = {}
  /\ stage = Len(Order)
  /\ task' = "none"
  /\ idTable' = IF BagCardinality(temp) >= MinRows THEN temp ELSE None
  /\ UNCHANGED <<tableVars, idMapping, maktaVars>>

-----------------------------------------------------------------------------
StartDatabase ==
  /\ task = "none"
  /\ idTable # None
  /\ idMapping = None
  /\ task' = "database"
  /\ Pipeline(idTable)
  /\ UNCHANGED <<tableVars, outputs, faults>>

(* Mutant: without pipefail, what makta says is taken for the whole. *)
MoveIfLastSucceeded ==
  /\ task = "database"
  /\ Ended
  /\ task' = "none"
  /\ idMapping' = IF LastSucceeded /\ BagCardinality(rows) >= MinRows
                    THEN [rows |-> rows, indexed |-> indexed] ELSE None
  /\ UNCHANGED <<tableVars, idTable, maktaVars>>

MoveDatabase ==
  /\ task = "database"
  /\ Ended
  /\ task' = "none"
  /\ idMapping' = IF Succeeded /\ BagCardinality(rows) >= MinRows
                    THEN [rows |-> rows, indexed |-> indexed] ELSE None
  /\ UNCHANGED <<tableVars, idTable, maktaVars>>

LoadDatabase(A) == task = "database" /\ A /\ UNCHANGED <<task, tableVars, outputs>>

-----------------------------------------------------------------------------
MakeTable == StartTable \/ NextIndex \/ MoveTable \/ \E s \in Source : \E x \in Docs[s] : Convert(x)
MakeDatabase == StartDatabase \/ MoveDatabase

Next == \/ MakeTable \/ ConvertFails \/ MakeDatabase
        \/ LoadDatabase(MaktaStep) \/ LoadDatabase(MaktaFault)

Spec == Init /\ [][Next]_vars

(* Every process gets on with its work, and a failed task is tried again.  *)
FairSpec ==
  /\ Spec
  /\ WF_vars(MakeTable \/ MakeDatabase)
  /\ WF_vars(LoadDatabase(Feed)) /\ WF_vars(LoadDatabase(Read))
  /\ WF_vars(LoadDatabase(RunImport)) /\ WF_vars(LoadDatabase(Finish))

-----------------------------------------------------------------------------
(* A document has a DOI where it is looked for; the DOIs it has anywhere.  *)
HasDoi(s, x) == IF s = "ai" THEN x.given # <<>>
                ELSE \E f \in Matching(x) : f.kind = "text"
DoisIn(x) == {PostProcess[f.match] : f \in Matching(x)} \cup {x.given[n] : n \in DOMAIN x.given}

(* The rows of a document in a bag of rows.                                *)
RowsFor(x, b) == {l \in BagToSet(b) : l.id = x.id}
Documents == UNION {Docs[s] : s \in Source}

(* A database that labed gets to see has exactly one row for each document *)
(* that has a DOI where it is looked for, with one of its DOIs, no other   *)
(* rows, and its indices: however the pipes are cut into batches, and      *)
(* whatever process fails in between and makes the next one see nothing    *)
(* but an early end of its input (tasks.py:415-446 and 464-475,            *)
(* base.py:201-255, makta/main.go:110-157).                                *)
Complete(b) ==
  /\ \A l \in BagToSet(b) : b[l] = 1
  /\ {l.id : l \in BagToSet(b)} \subseteq {x.id : x \in Documents}
  /\ \A s \in Source : \A x \in Docs[s] :
       IF HasDoi(s, x) THEN \E d \in DoisIn(x) : RowsFor(x, b) = {[id |-> x.id, doi |-> d]}
       ELSE RowsFor(x, b) = {}

MappingComplete ==
  /\ idTable # None => Complete(idTable)
  /\ idMapping # None => idMapping.rows = idTable /\ idMapping.indexed = Index

(* No two processes wait for each other, and no failure is for good: the   *)
(* database gets made (tabutils.go:54-77, tasks.py:402-475).               *)
GetsMapped == <>(idMapping # None)

(* A DOI is found "in list" as well (doi/sniffer_test.go:68-76): documents *)
(* with a match in some field that is not ignored are mapped.              *)
ListsAreSearched ==
  idMapping # None =>
    \A s \in Source \ {"ai"} : \A x \in Docs[s] :
      Matching(x) # {} => RowsFor(x, idMapping.rows) # {}
=============================================================================
