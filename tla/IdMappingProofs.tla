---------------------------- MODULE IdMappingProofs ----------------------------
(***************************************************************************)
(* Proofs about IdMapping, and about Makta in its pipe, for any documents, *)
(* batches, pipes and number of failures.                                  *)
(***************************************************************************)
EXTENDS IdMapping, TLAPS

-----------------------------------------------------------------------------
(* Bags of lines, one line at a time.                                      *)
Copies(l, b) == IF l \in BagToSet(b) THEN b[l] ELSE 0

LEMMA BagOfNone ==
  /\ IsABag(EmptyBag) /\ BagToSet(EmptyBag) = {} /\ \A l : Copies(l, EmptyBag) = 0
BY DEF IsABag, EmptyBag, SetToBag, BagToSet, Copies

LEMMA BagAdd ==
  ASSUME NEW b, IsABag(b), NEW l
  PROVE  /\ IsABag(b (+) One(l))
         /\ BagToSet(b (+) One(l)) = BagToSet(b) \cup {l}
         /\ \A k : Copies(k, b (+) One(l)) = Copies(k, b) + (IF k = l THEN 1 ELSE 0)
<1>1. b \in [DOMAIN b -> {n \in Nat : n > 0}]
  BY DEF IsABag
<1>2. One(l) = [e \in {l} |-> 1]
  BY DEF One, SetToBag
<1>3. b (+) One(l) = [e \in DOMAIN b \cup {l} |-> (IF e \in DOMAIN b THEN b[e] ELSE 0)
                                                  + (IF e = l THEN 1 ELSE 0)]
  BY <1>2 DEF (+)
<1>4. \A k \in DOMAIN b : b[k] \in Nat /\ b[k] > 0
  BY <1>1
<1> QED BY <1>3, <1>4 DEF IsABag, BagToSet, Copies

LEMMA BagDrop ==
  ASSUME NEW b, IsABag(b), NEW l \in BagToSet(b)
  PROVE  /\ IsABag(b (-) One(l))
         /\ BagToSet(b (-) One(l)) \subseteq BagToSet(b)
         /\ \A k : Copies(k, b (-) One(l)) = Copies(k, b) - (IF k = l THEN 1 ELSE 0)
<1> DEFINE f == [e \in DOMAIN b |-> IF e = l THEN b[e] - 1 ELSE b[e]]
<1>1. b \in [DOMAIN b -> {n \in Nat : n > 0}] /\ l \in DOMAIN b
  BY DEF IsABag, BagToSet
<1>2. One(l) = [e \in {l} |-> 1]
  BY DEF One, SetToBag
<1>3. b (-) One(l) = [e \in {d \in DOMAIN f : f[d] > 0} |-> f[e]]
  <2>1. f = [e \in DOMAIN b |-> IF e \in DOMAIN One(l) THEN b[e] - One(l)[e] ELSE b[e]]
    BY <1>2
  <2> HIDE DEF f
  <2> QED BY <2>1 DEF (-)
<1>4. \A k \in DOMAIN b : b[k] \in Nat /\ b[k] > 0
  BY <1>1
<1>5. \A k \in DOMAIN b : f[k] = (IF k = l THEN b[k] - 1 ELSE b[k]) /\ f[k] \in Nat
  BY <1>4
<1>6. DOMAIN f = DOMAIN b
  OBVIOUS
<1> HIDE DEF f
<1> QED BY <1>1, <1>3, <1>4, <1>5, <1>6 DEF IsABag, BagToSet, Copies

LEMMA BagCopies ==
  ASSUME NEW b, IsABag(b)
  PROVE  \A l : Copies(l, b) \in Nat /\ (l \in BagToSet(b) <=> Copies(l, b) > 0)
BY DEF IsABag, BagToSet, Copies

LEMMA SameBag ==
  ASSUME NEW a, NEW b, IsABag(a), IsABag(b), \A l : Copies(l, a) = Copies(l, b)
  PROVE  a = b
<1>1. DOMAIN a = DOMAIN b
  BY BagCopies DEF BagToSet
<1>2. \A l \in DOMAIN a : a[l] = b[l]
  BY <1>1 DEF Copies, BagToSet
<1>3. a = [l \in DOMAIN a |-> a[l]] /\ b = [l \in DOMAIN b |-> b[l]]
  BY DEF IsABag
<1> QED BY <1>1, <1>2, <1>3

LEMMA NoLines == LineBag(EmptyBag)
BY BagOfNone DEF LineBag

LEMMA Lines ==
  /\ \A b, l : LineBag(b) /\ l \in Line => LineBag(b (+) One(l))
  /\ \A b, l : LineBag(b) /\ BagIn(l, b) => LineBag(b (-) One(l))
BY BagAdd, BagDrop DEF LineBag, BagIn

-----------------------------------------------------------------------------
(* Types.                                                                  *)
LEMMA MaktaTypes ==
  ASSUME MaktaTypeOK, MaktaStep \/ MaktaFault
  PROVE  MaktaTypeOK'
<1> USE DEF MaktaTypeOK
<1>1. Fault => faults' \in 0 .. MaxFaults
  BY MaktaAssumption DEF Fault
<1>2. CASE UpstreamEnds \/ UpstreamFails
  BY <1>1, <1>2, NoLines DEF UpstreamEnds, UpstreamFails, Fault, import, database
<1>3. CASE InitDatabase \/ ReadEof
  BY <1>3 DEF InitDatabase, ReadEof, feed, import, database
<1>4. ASSUME NEW l \in Line, ReadLine(l) PROVE MaktaTypeOK'
  BY <1>4, Lines DEF ReadLine, import, database
<1>5. CASE StartImport \/ CloseStdin \/ CopyFails \/ SqliteEnds
  BY <1>5 DEF StartImport, CloseStdin, CopyFails, SqliteEnds, feed, database
<1>6. CASE ImportReturns
  BY <1>6 DEF ImportReturns, Continue, feed, import, database
<1>7. ASSUME NEW l \in Line, Copy(l) PROVE MaktaTypeOK'
  BY <1>7, Lines DEF Copy, feed, database
<1>8. ASSUME NEW l \in Line, Insert(l) PROVE MaktaTypeOK'
  <2>1. LineBag(pipe') /\ LineBag(rows')
    BY <1>8, Lines DEF Insert
  <2> QED BY <1>8, <2>1 DEF Insert, feed
<1>9. ASSUME NEW i \in Index, BuildIndex(i) PROVE MaktaTypeOK'
  BY <1>9 DEF BuildIndex, feed, import
<1>10. CASE Exit
  BY <1>10 DEF Exit, feed, import, database
<1>11. CASE ScriptFails \/ SqliteFails
  BY <1>1, <1>11 DEF ScriptFails, SqliteFails, Fault, feed, import, database
<1> QED
  BY <1>2, <1>3, <1>4, <1>5, <1>6, <1>7, <1>8, <1>9, <1>10, <1>11
     DEF MaktaStep, MaktaFault, Feed, Read, RunImport, Finish

(* What a document may be mapped to.                                       *)
LEMMA Dois ==
  ASSUME NEW s \in Source, NEW x \in Docs[s]
  PROVE  /\ x.id \in DocId
         /\ FirstDois(s, x) \subseteq Doi \cap DoisIn(x)
         /\ FirstDois(s, x) = {} <=> ~HasDoi(s, x)
<1>1. /\ x.id \in DocId /\ x.fields \subseteq Field /\ x.given \in Seq(Doi)
      /\ PostProcess \in [Match -> Doi]
  BY SnifferAssumption DEF DocOf
<1>2. ASSUME x.given # <<>>
      PROVE  x.given[1] \in Doi /\ 1 \in DOMAIN x.given
  BY <1>1, <1>2
<1>3. \A m \in SearchMap(x) : \E f \in Matching(x) : f.kind = "text" /\ m = f.match
  BY DEF SearchMap
<1>4. \A f \in Matching(x) : f.match \in Match
  BY <1>1 DEF Matching, Field
<1>5. Sniffed(x) \subseteq Doi \cap DoisIn(x)
  BY <1>1, <1>3, <1>4 DEF Sniffed, DoisIn
<1>6. Sniffed(x) = {} <=> ~\E f \in Matching(x) : f.kind = "text"
  BY DEF Sniffed, SearchMap
<1>7. x.given # <<>> => x.given[1] \in Doi \cap DoisIn(x)
  BY <1>2 DEF DoisIn
<1> QED BY <1>1, <1>5, <1>6, <1>7 DEF FirstDois, FirstGiven, FirstAfterSniffing, HasDoi

LEMMA Indices ==
  /\ 1 \in DOMAIN Order /\ DOMAIN Order = 1 .. Len(Order) /\ Len(Order) \in Nat
  /\ \A i \in DOMAIN Order : Order[i] \in Source
BY MappingAssumption

LEMMA TypesNext == TypeOK /\ [Next]_vars => TypeOK'
<1> SUFFICES ASSUME TypeOK, [Next]_vars PROVE TypeOK'
  OBVIOUS
<1> USE DEF TypeOK
<1>1. CASE UNCHANGED vars
  BY <1>1 DEF vars, tableVars, outputs, maktaVars, feed, import, database, MaktaTypeOK
<1>2. UNCHANGED maktaVars => MaktaTypeOK'
  BY DEF maktaVars, feed, import, database, MaktaTypeOK
<1>3. CASE StartTable
  BY <1>2, <1>3, NoLines, Indices DEF StartTable, outputs
<1>4. CASE NextIndex
  BY <1>2, <1>4, Indices DEF NextIndex, outputs
<1>5. CASE MoveTable
  BY <1>2, <1>5 DEF MoveTable, tableVars
<1>6. ASSUME NEW s \in Source, NEW x \in Docs[s], Convert(x) PROVE TypeOK'
  <2>1. Order[stage] \in Source /\ x \in Docs[Order[stage]]
    BY <1>6, Indices DEF Convert
  <2>2. \A d \in FirstDois(Order[stage], x) : [id |-> x.id, doi |-> d] \in Line
    BY <2>1, Dois, MappingAssumption
  <2>3. LineBag(temp')
    BY <1>6, <2>2, Lines DEF Convert
  <2> QED BY <1>2, <1>6, <2>3 DEF Convert, outputs
<1>7. CASE ConvertFails
  BY <1>7, MaktaAssumption DEF ConvertFails, Fault, MaktaTypeOK, tableVars, outputs, feed, import, database
<1>8. CASE StartDatabase
  BY <1>8, NoLines DEF StartDatabase, Pipeline, MaktaTypeOK, tableVars, outputs
<1>9. CASE MoveDatabase
  <2>1. idMapping' = None \/ idMapping' = [rows |-> rows, indexed |-> indexed]
    BY <1>9 DEF MoveDatabase
  <2>2. LineBag(rows) /\ indexed \subseteq Index
    BY DEF MaktaTypeOK
  <2> QED BY <1>2, <1>9, <2>1, <2>2 DEF MoveDatabase, tableVars
<1>10. CASE LoadDatabase(MaktaStep) \/ LoadDatabase(MaktaFault)
  BY <1>10, MaktaTypes DEF LoadDatabase, tableVars, outputs
<1> QED
  BY <1>1, <1>3, <1>4, <1>5, <1>6, <1>7, <1>8, <1>9, <1>10 DEF Next, MakeTable, MakeDatabase

LEMMA TypesInit == Init => TypeOK
<1> SUFFICES ASSUME Init PROVE TypeOK
  OBVIOUS
<1>1. MaktaTypeOK
  <2>1. LineBag(stdin) /\ LineBag(buf) /\ LineBag(pipe) /\ LineBag(rows)
    BY NoLines DEF Init, MaktaInit
  <2>2. faults \in 0 .. MaxFaults
    BY MaktaAssumption DEF Init, MaktaInit
  <2> QED BY <2>1, <2>2 DEF Init, MaktaInit, MaktaTypeOK
<1> QED BY <1>1, NoLines, Indices DEF Init, TypeOK

(* All variables keep their types, those of Makta among them.              *)
THEOREM TypeCorrect == Spec => []TypeOK
BY TypesInit, TypesNext, PTL DEF Spec

(* The batch of makta belongs to one goroutine at a time: the loop does    *)
(* not fill it while it is being copied, although RunImport returns        *)
(* without waiting for the goroutine if sqlite3 fails                      *)
(* (tabutils.go:59-77).                                                    *)
THEOREM BatchNotShared == Spec => []BatchHasOneUser
<1>1. Init => BatchHasOneUser
  BY DEF Init, MaktaInit, BatchHasOneUser
<1>2. ASSUME BatchHasOneUser, [Next]_vars PROVE BatchHasOneUser'
  <2> USE <1>2 DEF BatchHasOneUser
  <2>1. CASE UNCHANGED <<main, copier>>
    BY <2>1
  <2>2. CASE UNCHANGED vars \/ MakeTable \/ ConvertFails \/ MoveDatabase
    BY <2>1, <2>2 DEF vars, maktaVars, import, MakeTable, StartTable, NextIndex, MoveTable,
       Convert, ConvertFails, MoveDatabase
  <2>3. CASE StartDatabase
    BY <2>3 DEF StartDatabase, Pipeline
  <2>4. CASE Feed \/ Read \/ UpstreamFails \/ ScriptFails \/ SqliteFails \/ Finish
    BY <2>4 DEF Feed, Read, UpstreamEnds, UpstreamFails, InitDatabase, ReadEof, ReadLine,
       ScriptFails, SqliteFails, Finish, BuildIndex, Exit, import
  <2>5. CASE RunImport
    BY <2>5 DEF RunImport, StartImport, CloseStdin, CopyFails, SqliteEnds, ImportReturns,
       Copy, Insert, import
  <2> QED
    BY <2>2, <2>3, <2>4, <2>5 DEF Next, MakeDatabase, LoadDatabase, MaktaStep, MaktaFault
<1> QED BY <1>1, <1>2, PTL DEF Spec

-----------------------------------------------------------------------------
(* The table.  A document has been converted if its index had its turn, or *)
(* has it and the document is not left.                                    *)
Converted(s, x) ==
  \E i \in DOMAIN Order : Order[i] = s /\ (i < stage \/ (i = stage /\ x \notin left))

Partly(b) ==
  /\ \A l \in BagToSet(b) : b[l] = 1 /\ \E x \in Documents : l.id = x.id
  /\ \A s \in Source : \A x \in Docs[s] :
       IF Converted(s, x) /\ HasDoi(s, x)
         THEN \E d \in DoisIn(x) : RowsFor(x, b) = {[id |-> x.id, doi |-> d]}
         ELSE RowsFor(x, b) = {}

TableInv == /\ task = "table" => idTable = None /\ Partly(temp)
            /\ idTable # None => Complete(idTable)

(* One more document is converted: it had no row so far, no other document *)
(* has its id.                                                             *)
LEMMA PartlyConvert ==
  ASSUME TypeOK, Partly(temp), NEW x, Convert(x)
  PROVE  Partly(temp)'
<1> DEFINE src == Order[stage]
<1>1. /\ src \in Source /\ x \in Docs[src] /\ stage \in DOMAIN Order
      /\ x \in left /\ left' = left \ {x} /\ stage' = stage
  BY Indices DEF Convert, TypeOK
<1>2. /\ ~Converted(src, x) /\ Converted(src, x)'
      /\ \A s \in Source : \A y \in Docs[s] :
            s # src \/ y # x => (Converted(s, y)' <=> Converted(s, y))
  <2>1. ~Converted(src, x)
    BY <1>1, Indices, MappingAssumption DEF Converted
  <2>2. Converted(src, x)'
    BY <1>1 DEF Converted
  <2>3. ASSUME NEW s \in Source, NEW y \in Docs[s], s # src \/ y # x
        PROVE  Converted(s, y)' <=> Converted(s, y)
    BY <1>1, <2>3 DEF Converted
  <2> QED BY <2>1, <2>2, <2>3
<1> HIDE DEF src
<1>3. \A s \in Source : \A y \in Docs[s] : y.id = x.id => s = src /\ y = x
  BY <1>1, SnifferAssumption
<1>4. RowsFor(x, temp) = {}
  BY <1>1, <1>2 DEF Partly
<1>5. CASE FirstDois(src, x) = {} /\ temp' = temp
  <2>1. ~HasDoi(src, x)
    BY <1>1, <1>5, Dois
  <2> QED BY <1>2, <1>5, <2>1 DEF Partly
<1>6. ASSUME NEW d \in FirstDois(src, x), temp' = temp (+) One([id |-> x.id, doi |-> d])
      PROVE  Partly(temp)'
  <2> DEFINE r == [id |-> x.id, doi |-> d]
  <2>1. r.id = x.id /\ HasDoi(src, x) /\ d \in DoisIn(x)
    BY <1>1, Dois
  <2> HIDE DEF r
  <2>2. r \notin BagToSet(temp)
    BY <1>4, <2>1 DEF RowsFor
  <2>3. /\ IsABag(temp) /\ IsABag(temp')
        /\ BagToSet(temp') = BagToSet(temp) \cup {r}
        /\ \A k : Copies(k, temp') = Copies(k, temp) + (IF k = r THEN 1 ELSE 0)
    BY <1>6, BagAdd DEF TypeOK, LineBag, r
  <2>4. \A l \in BagToSet(temp') : temp'[l] = 1 /\ \E y \in Documents : l.id = y.id
    <3>1. ASSUME NEW l \in BagToSet(temp') PROVE temp'[l] = 1
      <4>1. temp'[l] = Copies(l, temp) + (IF l = r THEN 1 ELSE 0)
        BY <2>3 DEF Copies
      <4> QED BY <2>2, <2>3, <4>1 DEF Copies, Partly
    <3>2. x \in Documents
      BY <1>1 DEF Documents
    <3> QED BY <2>1, <2>3, <3>1, <3>2 DEF Partly
  <2>5. ASSUME NEW y, y.id # x.id PROVE RowsFor(y, temp') = RowsFor(y, temp)
    BY <2>1, <2>3, <2>5 DEF RowsFor
  <2>6. RowsFor(x, temp') = {r}
    BY <1>4, <2>1, <2>3 DEF RowsFor
  <2>7. \A s \in Source : \A y \in Docs[s] :
          IF Converted(s, y)' /\ HasDoi(s, y)
            THEN \E e \in DoisIn(y) : RowsFor(y, temp') = {[id |-> y.id, doi |-> e]}
            ELSE RowsFor(y, temp') = {}
    <3> SUFFICES ASSUME NEW s \in Source, NEW y \in Docs[s]
                 PROVE  IF Converted(s, y)' /\ HasDoi(s, y)
                          THEN \E e \in DoisIn(y) : RowsFor(y, temp') = {[id |-> y.id, doi |-> e]}
                          ELSE RowsFor(y, temp') = {}
      OBVIOUS
    <3>1. CASE y.id = x.id
      <4>1. s = src /\ y = x
        BY <1>3, <3>1
      <4>2. RowsFor(y, temp') = {[id |-> y.id, doi |-> d]} /\ d \in DoisIn(y)
        BY <2>1, <2>6, <4>1 DEF r
      <4>3. HasDoi(s, y)
        BY <2>1, <4>1
      <4>4. Converted(s, y)'
        BY <1>1, <4>1 DEF Converted, src
      <4> QED BY <4>2, <4>3, <4>4
    <3>2. CASE y.id # x.id
      BY <1>2, <2>5, <3>2 DEF Partly
    <3> QED BY <3>1, <3>2
  <2> QED BY <2>4, <2>7 DEF Partly, RowsFor
<1> QED BY <1>5, <1>6 DEF Convert, src

LEMMA TableNext == TypeOK /\ TableInv /\ [Next]_vars => TableInv'
<1> SUFFICES ASSUME TypeOK, TableInv, [Next]_vars PROVE TableInv'
  OBVIOUS
<1>1. CASE UNCHANGED <<task, tableVars, idTable>>
  BY <1>1 DEF TableInv, tableVars, Partly, Converted, RowsFor, Complete
<1>2. CASE UNCHANGED idTable /\ task' # "table"
  BY <1>2 DEF TableInv, Complete, RowsFor
<1>3. CASE UNCHANGED vars \/ ConvertFails \/ MakeDatabase \/ LoadDatabase(MaktaStep)
                 \/ LoadDatabase(MaktaFault)
  BY <1>1, <1>2, <1>3 DEF vars, outputs, ConvertFails, MakeDatabase, StartDatabase,
     MoveDatabase, LoadDatabase
<1>4. CASE StartTable
  <2>1. /\ stage' = 1 /\ left' = Docs[Order[1]] /\ temp' = EmptyBag
        /\ idTable = None /\ idTable' = None
    BY <1>4 DEF StartTable, outputs
  <2>2. \A s \in Source : \A x \in Docs[s] : ~Converted(s, x)'
    BY <2>1, Indices DEF Converted
  <2>3. Partly(temp)'
    BY <2>1, <2>2, BagOfNone DEF Partly, RowsFor
  <2> QED BY <2>1, <2>3 DEF TableInv
<1>5. CASE NextIndex
  <2>1. /\ left = {} /\ stage' = stage + 1 /\ left' = Docs[Order[stage + 1]]
        /\ UNCHANGED <<task, temp, idTable>> /\ task = "table"
        /\ stage \in DOMAIN Order
    BY <1>5 DEF NextIndex, outputs, TypeOK
  <2>2. \A s \in Source : \A x \in Docs[s] : Converted(s, x)' <=> Converted(s, x)
    BY <2>1, Indices DEF Converted
  <2>3. Partly(temp)'
    BY <2>1, <2>2 DEF TableInv, Partly, RowsFor
  <2> QED BY <2>1, <2>3 DEF TableInv
<1>6. CASE MoveTable
  <2>1. /\ task = "table" /\ left = {} /\ stage = Len(Order) /\ task' = "none"
        /\ idTable' \in {temp, None}
    BY <1>6 DEF MoveTable
  <2>2. \A s \in Source : \A x \in Docs[s] : Converted(s, x)
    BY <2>1, Indices, MappingAssumption DEF Converted
  <2>3. Complete(temp)
    BY <2>1, <2>2 DEF TableInv, Partly, Complete
  <2> QED BY <2>1, <2>3 DEF TableInv, Complete, RowsFor
<1>7. ASSUME NEW s \in Source, NEW x \in Docs[s], Convert(x) PROVE TableInv'
  <2>1. task = "table" /\ UNCHANGED <<task, idTable>>
    BY <1>7 DEF Convert, outputs
  <2> QED BY <1>7, <2>1, PartlyConvert DEF TableInv
<1> QED BY <1>3, <1>4, <1>5, <1>6, <1>7 DEF Next, MakeTable

-----------------------------------------------------------------------------
(* The database.  Wherever a line is, it is there as often as in the       *)
(* table, unless upstream has failed; and once a process is done, there is *)
(* nothing left on its side.                                               *)
Kept == \A l \in Line :
  Copies(l, rows) + Copies(l, pipe) + Copies(l, buf) + Copies(l, stdin) = Copies(l, idTable)

Loading ==
  /\ upstream # "running" => stdin = EmptyBag
  /\ final => upstream # "running"
  /\ main \in {"read", "import", "index", "done"} \/ sqlite # "none" => table
  /\ main \notin {"import", "fatal"} => copier = "none" /\ sqlite = "none"
  /\ main \in {"index", "done"} => final /\ buf = EmptyBag
  /\ main = "done" => indexed = Index
  /\ copier = "done" => buf = EmptyBag
  /\ sqlite = "none" => copier = "none" /\ pipe = EmptyBag
  /\ sqlite = "done" => copier = "done" /\ pipe = EmptyBag
  /\ upstream # "failed" => Kept

DatabaseInv ==
  /\ task = "database" => idTable # None /\ Loading
  /\ idMapping # None => idTable # None /\ idMapping = [rows |-> idTable, indexed |-> Index]

LEMMA KeptSame ==
  ASSUME Kept, UNCHANGED <<rows, pipe, buf, stdin, idTable>>
  PROVE  Kept'
BY DEF Kept, Copies

(* A line goes from upstream to the batch, the pipe and the table.         *)
LEMMA KeptMoves ==
  ASSUME MaktaTypeOK, Kept, UNCHANGED idTable, NEW l \in Line,
         ReadLine(l) \/ Copy(l) \/ (Insert(l) /\ table)
  PROVE  Kept'
<1>1. IsABag(stdin) /\ IsABag(buf) /\ IsABag(pipe) /\ IsABag(rows)
  BY DEF MaktaTypeOK, LineBag
<1>2. \A k : /\ Copies(k, stdin) \in Nat /\ Copies(k, buf) \in Nat
             /\ Copies(k, pipe) \in Nat /\ Copies(k, rows) \in Nat
  BY <1>1, BagCopies
<1>3. ASSUME NEW a, NEW b, IsABag(a), IsABag(b), BagIn(l, a)
      PROVE  \A k \in Line : /\ Copies(k, a (-) One(l)) = Copies(k, a) - (IF k = l THEN 1 ELSE 0)
                             /\ Copies(k, b (+) One(l)) = Copies(k, b) + (IF k = l THEN 1 ELSE 0)
  BY <1>3, BagDrop, BagAdd DEF BagIn
<1>4. CASE ReadLine(l)
  <2>1. /\ BagIn(l, stdin) /\ stdin' = stdin (-) One(l) /\ buf' = buf (+) One(l)
        /\ UNCHANGED <<pipe, rows>>
    BY <1>4 DEF ReadLine, import, database
  <2>2. \A k \in Line :
          /\ Copies(k, stdin') = Copies(k, stdin) - (IF k = l THEN 1 ELSE 0)
          /\ Copies(k, buf') = Copies(k, buf) + (IF k = l THEN 1 ELSE 0)
    BY <1>1, <1>3, <2>1
  <2> QED BY <1>2, <2>1, <2>2 DEF Kept
<1>5. CASE Copy(l)
  <2>1. /\ BagIn(l, buf) /\ buf' = buf (-) One(l) /\ pipe' = pipe (+) One(l)
        /\ UNCHANGED <<stdin, rows>>
    BY <1>5 DEF Copy, feed, database
  <2>2. \A k \in Line :
          /\ Copies(k, buf') = Copies(k, buf) - (IF k = l THEN 1 ELSE 0)
          /\ Copies(k, pipe') = Copies(k, pipe) + (IF k = l THEN 1 ELSE 0)
    BY <1>1, <1>3, <2>1
  <2> QED BY <1>2, <2>1, <2>2 DEF Kept
<1>6. CASE Insert(l) /\ table
  <2>1. /\ BagIn(l, pipe) /\ pipe' = pipe (-) One(l) /\ rows' = rows (+) One(l)
        /\ UNCHANGED <<stdin, buf>>
    BY <1>6 DEF Insert, feed
  <2>2. \A k \in Line :
          /\ Copies(k, pipe') = Copies(k, pipe) - (IF k = l THEN 1 ELSE 0)
          /\ Copies(k, rows') = Copies(k, rows) + (IF k = l THEN 1 ELSE 0)
    BY <1>1, <1>3, <2>1
  <2> QED BY <1>2, <2>1, <2>2 DEF Kept
<1> QED BY <1>4, <1>5, <1>6

LEMMA LoadingNext ==
  ASSUME MaktaTypeOK, Loading, UNCHANGED idTable, MaktaStep \/ MaktaFault
  PROVE  Loading'
<1> USE DEF Loading
<1>1. CASE UpstreamEnds
  BY <1>1, KeptSame DEF UpstreamEnds, import, database
<1>2. CASE UpstreamFails
  BY <1>2 DEF UpstreamFails, import, database
<1>3. CASE InitDatabase \/ ReadEof
  BY <1>3, KeptSame DEF InitDatabase, ReadEof, feed, import, database
<1>4. CASE ScriptFails \/ SqliteFails
  BY <1>4, KeptSame DEF ScriptFails, SqliteFails, feed, import, database
<1>5. ASSUME NEW l \in Line, ReadLine(l) PROVE Loading'
  <2>1. /\ BagIn(l, stdin) /\ main = "read" /\ main' \in {"import", "read"}
        /\ UNCHANGED <<upstream, final, import, database>>
    BY <1>5 DEF ReadLine
  <2>2. upstream = "running"
    BY <2>1, BagOfNone DEF BagIn
  <2>3. Kept'
    BY <1>5, <2>2, KeptMoves
  <2> QED BY <2>1, <2>2, <2>3 DEF import, database
<1>6. CASE StartImport \/ CloseStdin \/ CopyFails
  BY <1>6, KeptSame DEF StartImport, CloseStdin, CopyFails, feed, database
<1>7. CASE SqliteEnds
  BY <1>7, KeptSame DEF SqliteEnds, feed, database
<1>8. CASE ImportReturns
  <2>1. CASE main' = "fatal" /\ UNCHANGED import
    BY <1>8, <2>1, KeptSame DEF ImportReturns, feed, import, database
  <2>2. CASE main' # "fatal"
    <3>1. /\ main = "import" /\ sqlite = "done" /\ copier = "done" /\ UNCHANGED pipe
          /\ sqlite' = "none" /\ copier' = "none"
          /\ main' = IF final THEN "index" ELSE "read"
          /\ UNCHANGED <<feed, final, buf, database>>
      BY <1>8, <2>2 DEF ImportReturns, Continue
    <3> QED BY <3>1, KeptSame DEF feed, database
  <2> QED BY <1>8, <2>1, <2>2 DEF ImportReturns, Continue
<1>9. ASSUME NEW l \in Line, Copy(l) PROVE Loading'
  <2>1. /\ sqlite = "running" /\ copier = "copying" /\ BagIn(l, buf)
        /\ UNCHANGED <<feed, main, final, copier, sqlite, database>>
    BY <1>9 DEF Copy
  <2>2. upstream # "failed" => Kept'
    BY <1>9, KeptMoves
  <2>3. buf # EmptyBag
    BY <2>1, BagOfNone DEF BagIn
  <2> QED BY <2>1, <2>2, <2>3 DEF feed, database
<1>10. ASSUME NEW l \in Line, Insert(l) PROVE Loading'
  <2>1. /\ sqlite = "running" /\ table' = TRUE
        /\ UNCHANGED <<feed, main, final, buf, copier, sqlite, indexed>>
    BY <1>10 DEF Insert
  <2>2. upstream # "failed" => Kept'
    BY <1>10, <2>1, KeptMoves
  <2> QED BY <2>1, <2>2 DEF feed
<1>11. ASSUME NEW i \in Index, BuildIndex(i) PROVE Loading'
  BY <1>11, KeptSame DEF BuildIndex, feed, import
<1>12. CASE Exit
  BY <1>12, KeptSame DEF Exit, feed, import, database
<1> QED
  BY <1>1, <1>2, <1>3, <1>4, <1>5, <1>6, <1>7, <1>8, <1>9, <1>10, <1>11, <1>12
     DEF MaktaStep, MaktaFault, Feed, Read, RunImport, Finish

(* When all have succeeded, every line has become a row.                   *)
LEMMA AllLoaded ==
  ASSUME TypeOK, Loading, idTable # None, Succeeded
  PROVE  rows = idTable /\ indexed = Index
<1>1. stdin = EmptyBag /\ buf = EmptyBag /\ pipe = EmptyBag /\ indexed = Index /\ Kept
  BY DEF Succeeded, Loading
<1>2. LineBag(rows) /\ LineBag(idTable)
  BY DEF TypeOK, MaktaTypeOK
<1>3. \A l : Copies(l, rows) \in Nat /\ Copies(l, EmptyBag) = 0
  BY <1>2, BagCopies, BagOfNone DEF LineBag
<1>4. \A l \in Line : Copies(l, rows) = Copies(l, idTable)
  BY <1>1, <1>3 DEF Kept
<1>5. \A l : l \notin Line => Copies(l, rows) = Copies(l, idTable)
  BY <1>2 DEF LineBag, Copies
<1>6. IsABag(rows) /\ IsABag(idTable) /\ \A l : Copies(l, rows) = Copies(l, idTable)
  BY <1>2, <1>4, <1>5 DEF LineBag
<1> QED BY <1>1, <1>6, SameBag

LEMMA DatabaseNext == TypeOK /\ TableInv /\ DatabaseInv /\ [Next]_vars => DatabaseInv'
<1> SUFFICES ASSUME TypeOK, TableInv, DatabaseInv, [Next]_vars PROVE DatabaseInv'
  OBVIOUS
<1> USE DEF DatabaseInv
<1>1. CASE UNCHANGED <<task, outputs, maktaVars>>
  BY <1>1, KeptSame DEF outputs, maktaVars, feed, import, database, Loading
<1>2. CASE task # "database" /\ task' # "database" /\ UNCHANGED outputs
  BY <1>2 DEF outputs
<1>3. CASE UNCHANGED vars \/ StartTable \/ NextIndex \/ ConvertFails
  BY <1>1, <1>2, <1>3 DEF vars, StartTable, NextIndex, ConvertFails
<1>4. CASE \E s \in Source : \E x \in Docs[s] : Convert(x)
  BY <1>2, <1>4 DEF Convert
<1>5. CASE MoveTable
  BY <1>5 DEF MoveTable, TableInv
<1>6. CASE StartDatabase
  <2>1. /\ task' = "database" /\ idTable # None /\ idMapping = None /\ UNCHANGED outputs
        /\ Pipeline(idTable)
    BY <1>6 DEF StartDatabase
  <2>2. \A l : Copies(l, idTable) \in Nat
    BY <2>1, BagCopies DEF TypeOK, LineBag
  <2>3. Kept'
    BY <2>1, <2>2, BagOfNone DEF Kept, Pipeline, outputs
  <2> QED BY <2>1, <2>3 DEF Pipeline, Loading, outputs
<1>7. CASE MoveDatabase
  <2>1. /\ task = "database" /\ task' # "database" /\ UNCHANGED idTable
        /\ \/ idMapping' = None
           \/ Succeeded /\ idMapping' = [rows |-> rows, indexed |-> indexed]
    BY <1>7 DEF MoveDatabase
  <2> QED BY <2>1, AllLoaded
<1>8. CASE LoadDatabase(MaktaStep) \/ LoadDatabase(MaktaFault)
  BY <1>8, LoadingNext DEF LoadDatabase, outputs, TypeOK
<1> QED
  BY <1>3, <1>4, <1>5, <1>6, <1>7, <1>8 DEF Next, MakeTable, MakeDatabase

(* The table and the database have exactly one row for each document with  *)
(* a DOI where it is looked for, one of its DOIs, no other rows, and the   *)
(* database its indices: for any documents, sizes of batches and pipes,    *)
(* and whatever process fails (tasks.py:415-446 and 464-475).              *)
THEOREM MappingIsComplete == Spec => []MappingComplete
<1> DEFINE Inv == TypeOK /\ TableInv /\ DatabaseInv
<1>1. Init => Inv
  BY TypesInit DEF Init, TableInv, DatabaseInv
<1>2. Inv /\ [Next]_vars => Inv'
  BY TypesNext, TableNext, DatabaseNext
<1>3. Inv => MappingComplete
  BY DEF TableInv, DatabaseInv, MappingComplete
<1> HIDE DEF Inv
<1> QED BY <1>1, <1>2, <1>3, PTL DEF Spec
=============================================================================
