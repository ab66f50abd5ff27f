---------------------------- MODULE KvetchProofs ----------------------------
(* Proofs about Kvetch, for any processes, shards, schema and inputs.      *)
EXTENDS Kvetch, TLAPS

USE DEF Shards

(* An id's shard exists. *)
LEMMA ShardOfId == \A id \in Ids : ShardOf(id) \in Shards
  BY ConstantsAssumption DEF ShardOf

(* The schema's definitions, by position, are well-typed.                  *)
LEMMA DefsTyped == /\ \A j \in DOMAIN EdgeDefs : EdgeDefs[j] \in Def
                   /\ \A j \in DOMAIN IndexDefs : IndexDefs[j] \in Def
                   /\ Len(EdgeDefs) \in Nat /\ DOMAIN EdgeDefs = 1 .. Len(EdgeDefs)
                   /\ Len(IndexDefs) \in Nat /\ DOMAIN IndexDefs = 1 .. Len(IndexDefs)
  BY ConstantsAssumption

(* What an update writes is an object of the row's type, or no row.        *)
LEMMA ReplaceRowTyped ==
  ASSUME NEW row \in Object \cup {Null}, NEW old \in Object, NEW patch \in Data
  PROVE  /\ ReplaceRow(row, old, patch) \in Object \cup {Null}
         /\ row = Null <=> ReplaceRow(row, old, patch) = Null
         /\ row # Null => ReplaceRow(row, old, patch).type = row.type
  <1>1. Merge(old.data, patch) \in Data
    BY DEF Merge, Data, Object
  <1>2. row # Null => [type |-> row.type, data |-> Merge(old.data, patch)] \in Object
    BY <1>1 DEF Object
  <1> QED BY <1>2, ConstantsAssumption DEF ReplaceRow

(* The rows an insert writes have values of the schema's columns.          *)
LEMMA RowsTyped ==
  ASSUME NEW d \in Def, NEW obj \in Object, NEW id \in Ids, Applicable(d, obj)
  PROVE  /\ EdgeRow(d, obj, id) \in [edge : STRING, from : Values, to : Ids]
         /\ IndexRow(d, obj, id) \in [index : STRING, value : Values, target : Ids]
         /\ obj.data[d.attr] \in Values
  BY DEF Def, Object, Data, Applicable, EdgeRow, IndexRow

-----------------------------------------------------------------------------
(* The locals a call starts with are typed.                                *)
LEMMA StartTyped ==
  ASSUME NEW id \in Ids, NEW obj \in Object, NEW patch \in Data \cup {Null}
  PROVE  /\ Start(id, obj, patch) \in Call
         /\ Start(id, obj, patch).id = id
         /\ Start(id, obj, patch).obj = obj
         /\ Start(id, obj, patch).patch = patch
         /\ Start(id, obj, patch).k = 1
  BY DEF Start, Call

(* Stepping a loop changes its position and nothing else of the call.      *)
LEMMA Stepped ==
  ASSUME NEW c \in Call, NEW n \in Nat \ {0}
  PROVE  /\ [c EXCEPT !.k = n] \in Call
         /\ [c EXCEPT !.k = n].id = c.id
         /\ [c EXCEPT !.k = n].obj = c.obj
         /\ [c EXCEPT !.k = n].patch = c.patch
         /\ [c EXCEPT !.k = n].k = n
  BY DEF Call

(* A returning process is idle and holds nothing.                          *)
LEMMA ReturnTyped ==
  ASSUME CallsOK, NEW p \in Procs, Return(p)
  PROVE  CallsOK'
  <1>1. NoCall \in Call
    BY DEF NoCall, Call
  <1> QED BY <1>1 DEF CallsOK, Return, Goto, Phases

(* The next position of a loop is still a typed local.                     *)
LEMMA AdvanceTyped ==
  ASSUME CallsOK, NEW p \in Procs, Advance(p)
  PROVE  /\ CallsOK'
         /\ cur'[p].k = cur[p].k + 1
         /\ cur'[p].id = cur[p].id
         /\ cur'[p].obj = cur[p].obj
         /\ \A q \in Procs \ {p} : cur'[q] = cur[q]
  <1>1. cur[p] \in Call /\ cur[p].k + 1 \in Nat \ {0}
    BY DEF CallsOK, Call
  <1>2. cur' = [cur EXCEPT ![p] = [cur[p] EXCEPT !.k = cur[p].k + 1]]
    BY DEF Advance
  <1>3. [cur[p] EXCEPT !.k = cur[p].k + 1] \in Call
    BY <1>1, Stepped
  <1>4. cur'[p] = [cur[p] EXCEPT !.k = cur[p].k + 1]
    BY <1>2 DEF CallsOK
  <1>5. cur' \in [Procs -> Call] /\ \A q \in Procs \ {p} : cur'[q] = cur[q]
    BY <1>2, <1>3 DEF CallsOK
  <1>6. /\ cur'[p].k = cur[p].k + 1
        /\ cur'[p].id = cur[p].id
        /\ cur'[p].obj = cur[p].obj
        /\ cur'[p].patch = cur[p].patch
    BY <1>1, <1>4, Stepped
  <1>7. pc' = pc
    BY DEF Advance
  <1> QED BY <1>5, <1>6, <1>7 DEF CallsOK

(* A call that starts has its id, its row and its first loop position.     *)
LEMMA BeginTyped ==
  ASSUME CallsOK, NEW p \in Procs, NEW id \in Ids, NEW obj \in Object,
         NEW patch \in Data \cup {Null}, NEW phase \in Phases,
         phase = "write" => patch \in Data,
         Goto(p, phase), cur' = [cur EXCEPT ![p] = Start(id, obj, patch)]
  PROVE  CallsOK'
  BY StartTyped DEF CallsOK, Goto

-----------------------------------------------------------------------------
(* Kvetch.__init__ starts from typed, empty tables.                        *)
LEMMA TypeInit == Init => TypeOK
  <1>1. NoCall \in Call
    BY DEF NoCall, Call
  <1> QED BY <1>1, ConstantsAssumption
          DEF Init, TypeOK, StoresOK, CallsOK, HistoryOK, Phases

(* Every statement, return and fault keeps the types.                      *)
LEMMA TypeNext == TypeOK /\ [Next]_vars => TypeOK'
<1> SUFFICES ASSUME TypeOK, [Next]_vars PROVE TypeOK'
  OBVIOUS
<1> USE ShardOfId, DefsTyped DEF TypeOK
<1>1. CASE UNCHANGED vars
  BY <1>1 DEF vars, StoresOK, CallsOK, HistoryOK
<1>2. ASSUME NEW p \in Procs, InsertRow(p) PROVE TypeOK'
  <2>1. PICK id \in Unborn, obj \in InsertObjs :
           /\ objects' = [objects EXCEPT ![ShardOf(id)][id] = obj]
           /\ cur' = [cur EXCEPT ![p] = Start(id, obj, Null)]
           /\ born' = [born EXCEPT ![id] = obj]
           /\ how' = [how EXCEPT ![id] = "open"]
    BY <1>2 DEF InsertRow
  <2>2. id \in Ids /\ obj \in Object
    BY ConstantsAssumption DEF Unborn
  <2>3. CallsOK'
    BY <1>2, <2>1, <2>2, BeginTyped DEF InsertRow, Phases
  <2>4. StoresOK'
    BY <1>2, <2>1, <2>2 DEF InsertRow, StoresOK
  <2>5. HistoryOK'
    BY <1>2, <2>1, <2>2 DEF InsertRow, HistoryOK
  <2> QED BY <2>3, <2>4, <2>5
<1>3. ASSUME NEW p \in Procs, InsertEdge(p) PROVE TypeOK'
  <2> DEFINE d == EdgeDefs[cur[p].k]
             row == EdgeRow(d, cur[p].obj, cur[p].id)
  <2>1. d \in Def /\ cur[p].id \in Ids /\ cur[p].obj \in Object
    BY <1>3 DEF InsertEdge, CallsOK, Call
  <2>2. Applicable(d, cur[p].obj) => row \in [edge : STRING, from : Values, to : Ids]
    BY <2>1, RowsTyped
  <2>3. StoresOK'
    BY <1>3, <2>2 DEF InsertEdge, StoresOK
  <2> QED BY <1>3, <2>3, AdvanceTyped DEF InsertEdge, HistoryOK
<1>4. ASSUME NEW p \in Procs, EdgesDone(p) PROVE TypeOK'
  <2>1. cur[p] \in Call
    BY DEF CallsOK
  <2>2. /\ [cur[p] EXCEPT !.k = 1] \in Call
        /\ [cur[p] EXCEPT !.k = 1].id = cur[p].id
        /\ [cur[p] EXCEPT !.k = 1].obj = cur[p].obj
    <3>1. 1 \in Nat \ {0}
      OBVIOUS
    <3> QED BY <2>1, <3>1, Stepped
  <2>3. cur' = [cur EXCEPT ![p] = [cur[p] EXCEPT !.k = 1]]
    BY <1>4 DEF EdgesDone
  <2>4. CallsOK'
    BY <1>4, <2>2, <2>3 DEF EdgesDone, CallsOK, Goto, Phases
  <2> QED BY <1>4, <2>4 DEF EdgesDone, stores, StoresOK, HistoryOK
<1>5. ASSUME NEW p \in Procs, InsertIndexEntry(p) PROVE TypeOK'
  <2> DEFINE d == IndexDefs[cur[p].k]
             row == IndexRow(d, cur[p].obj, cur[p].id)
  <2>1. d \in Def /\ cur[p].id \in Ids /\ cur[p].obj \in Object
    BY <1>5 DEF InsertIndexEntry, CallsOK, Call
  <2>2. Applicable(d, cur[p].obj) => row \in [index : STRING, value : Values, target : Ids]
    BY <2>1, RowsTyped
  <2>3. StoresOK'
    BY <1>5, <2>2 DEF InsertIndexEntry, StoresOK
  <2> QED BY <1>5, <2>3, AdvanceTyped DEF InsertIndexEntry, HistoryOK
<1>6. ASSUME NEW p \in Procs, InsertReturn(p) PROVE TypeOK'
  BY <1>6, ReturnTyped DEF InsertReturn, stores, StoresOK, HistoryOK
<1>7. ASSUME NEW p \in Procs, BulkInsert(p) PROVE TypeOK'
  <2>1. PICK S \in SUBSET Unborn, type \in Types :
          /\ \E new \in [S -> {obj \in InsertObjs : obj.type = type}] :
               /\ objects' = [objects EXCEPT ![0] =
                               [id \in Ids |-> IF id \in S THEN new[id] ELSE @[id]]]
               /\ born' = [id \in Ids |-> IF id \in S THEN new[id] ELSE born[id]]
          /\ how' = [id \in Ids |-> IF id \in S THEN "bulk" ELSE how[id]]
    BY <1>7 DEF BulkInsert
  <2>2. PICK new \in [S -> {obj \in InsertObjs : obj.type = type}] :
               /\ objects' = [objects EXCEPT ![0] =
                               [id \in Ids |-> IF id \in S THEN new[id] ELSE @[id]]]
               /\ born' = [id \in Ids |-> IF id \in S THEN new[id] ELSE born[id]]
    BY <2>1
  <2>3. \A id \in S : new[id] \in Object
    BY <2>2, ConstantsAssumption
  <2>4. objects' \in [Shards -> [Ids -> Object \cup {Null}]]
    BY <2>2, <2>3, <1>7, ConstantsAssumption DEF StoresOK, BulkInsert
  <2>5. HistoryOK'
    BY <1>7, <2>1, <2>2, <2>3 DEF HistoryOK, BulkInsert
  <2> QED BY <1>7, <2>4, <2>5 DEF BulkInsert, StoresOK, CallsOK
<1>8. ASSUME NEW p \in Procs, UpdateRead(p) PROVE TypeOK'
  <2>1. PICK id \in Ids, patch \in Patches :
          Live(id) /\ cur' = [cur EXCEPT ![p] = Start(id, Row(id), patch)]
    BY <1>8 DEF UpdateRead
  <2>2. Row(id) \in Object /\ patch \in Data
    BY <2>1, ConstantsAssumption DEF Live, Row, StoresOK
  <2>3. CallsOK'
    BY <1>8, <2>1, <2>2, BeginTyped DEF UpdateRead, Phases
  <2> QED BY <1>8, <2>3 DEF UpdateRead, stores, StoresOK, HistoryOK
<1>9. ASSUME NEW p \in Procs, UpdateWrite(p) PROVE TypeOK'
  <2> DEFINE id == cur[p].id
             new == ReplaceRow(objects[ShardOf(id)][id], cur[p].obj, cur[p].patch)
  <2>1. id \in Ids /\ cur[p].obj \in Object /\ cur[p].patch \in Data
    BY <1>9 DEF UpdateWrite, CallsOK
  <2>2. new \in Object \cup {Null}
    BY <2>1, ReplaceRowTyped DEF StoresOK
  <2>3. objects' = [objects EXCEPT ![ShardOf(id)][id] = new]
    BY <1>9 DEF UpdateWrite
  <2>4. StoresOK'
    BY <1>9, <2>1, <2>2, <2>3 DEF UpdateWrite, StoresOK
  <2> QED BY <1>9, <2>4, ReturnTyped DEF UpdateWrite, HistoryOK
<1>10. ASSUME NEW p \in Procs, DeleteRead(p) PROVE TypeOK'
  <2>1. PICK id \in Ids : Live(id) /\ cur' = [cur EXCEPT ![p] = Start(id, Row(id), Null)]
    BY <1>10 DEF DeleteRead
  <2>2. Row(id) \in Object
    BY <2>1 DEF Live, Row, StoresOK
  <2>3. CallsOK'
    BY <1>10, <2>1, <2>2, BeginTyped DEF DeleteRead, Phases
  <2> QED BY <1>10, <2>3 DEF DeleteRead, stores, StoresOK, HistoryOK
<1>11. ASSUME NEW p \in Procs, DeleteRow(p) PROVE TypeOK'
  <2>1. cur[p].id \in Ids /\ cur[p].obj \in Object
    BY <1>11 DEF DeleteRow, CallsOK
  <2>2. CallsOK'
    BY <1>11, <2>1 DEF DeleteRow, CallsOK, Goto, Phases
  <2>3. StoresOK'
    BY <1>11, <2>1 DEF DeleteRow, StoresOK
  <2> QED BY <1>11, <2>2, <2>3 DEF DeleteRow, HistoryOK
<1>12. ASSUME NEW p \in Procs, DeleteIndexEntry(p) PROVE TypeOK'
  <2>1. StoresOK'
    BY <1>12 DEF DeleteIndexEntry, DeleteEntry, StoresOK
  <2> QED BY <1>12, <2>1, AdvanceTyped DEF DeleteIndexEntry, HistoryOK
<1>13. ASSUME NEW p \in Procs, DeleteReturn(p) PROVE TypeOK'
  BY <1>13, ReturnTyped DEF DeleteReturn, stores, StoresOK, HistoryOK
<1>14. ASSUME NEW p \in Procs, Fault(p) PROVE TypeOK'
  <2>1. Abandon(p) /\ hash' \in [Procs -> Hashes]
    BY <1>14 DEF Fault, StatementFails, ProcessRestarts, HistoryOK
  <2>2. how' \in [Ids -> {"unborn", "open", "done", "cut", "bulk"}]
    BY <2>1 DEF Abandon, HistoryOK
  <2>3. HistoryOK'
    BY <2>1, <2>2 DEF Abandon, HistoryOK
  <2> QED BY <2>1, <2>3, ReturnTyped DEF Abandon, stores, StoresOK
<1> QED
  BY <1>1, <1>2, <1>3, <1>4, <1>5, <1>6, <1>7, <1>8, <1>9, <1>10, <1>11, <1>12, <1>13, <1>14
     DEF Next, Begin, Continue

(* Type correctness of the store, the processes and the history.           *)
THEOREM TypeCorrect == Spec => []TypeOK
  BY TypeInit, TypeNext, PTL DEF Spec

-----------------------------------------------------------------------------
(* What no step of a process q does: take an edge away, change what an id  *)
(* was born with, bring an object back, take an entry of an object that stays, *)
(* touch another process's call, or finish an insert that is not its own.  *)

EdgesGrow == \A s \in Shards : edges[s] \subseteq edges'[s]
BornStays == \A id \in Ids : born[id] # Null => born'[id] = born[id]
DeadStays == \A id \in Ids : ~Live(id) /\ Live(id)' => born[id] = Null /\ born'[id] # Null
EntriesStay ==
  \A s \in Shards : \A row \in indexes[s] :
    Live(row.target)' /\ born[row.target] # Null => row \in indexes'[s]
OthersKept(q) ==
  \A p \in Procs \ {q} :
    /\ pc'[p] = pc[p]
    /\ cur'[p] = cur[p]
    /\ Inserting(p) => how'[cur[p].id] = how[cur[p].id]
DoneByReturn(q) ==
  \A id \in Ids : how'[id] = "done" => \/ how[id] = "done"
                                       \/ InsertReturn(q) /\ cur[q].id = id

StepFacts(q) == /\ EdgesGrow /\ BornStays /\ DeadStays /\ EntriesStay
                /\ OthersKept(q) /\ DoneByReturn(q)

Action(p) == Begin(p) \/ Continue(p) \/ Fault(p)

(* Steps that leave the object rows and the histories alone.               *)
LEMMA QuietFacts ==
  ASSUME UNCHANGED <<objects, born>>
  PROVE  BornStays /\ DeadStays /\ \A id \in Ids : Live(id)' = Live(id)
  BY DEF BornStays, DeadStays, Live, Row

(* Writing one row of an id changes that id's row alone.                   *)
LEMMA RowWritten ==
  ASSUME TypeOK, NEW id \in Ids, NEW new \in Object \cup {Null},
         objects' = [objects EXCEPT ![ShardOf(id)][id] = new]
  PROVE  /\ Row(id)' = new
         /\ \A other \in Ids \ {id} : Row(other)' = Row(other)
         /\ \A s \in Shards, other \in Ids :
              (s # ShardOf(id) \/ other # id) => objects'[s][other] = objects[s][other]
  BY ShardOfId DEF TypeOK, StoresOK, Row

(* What every step leaves alone: born objects, edges, the rest.            *)
LEMMA StepFactsHold ==
  ASSUME TypeOK, IInv, NEW q \in Procs, Action(q)
  PROVE  StepFacts(q)
<1> USE DEF StepFacts, TypeOK
<1> cur[q] \in Call /\ (pc[q] # "idle" => cur[q].id \in Ids /\ cur[q].obj \in Object)
  BY DEF CallsOK
<1>1. CASE InsertRow(q)
  <2>1. PICK id \in Unborn, obj \in InsertObjs :
           /\ objects' = [objects EXCEPT ![ShardOf(id)][id] = obj]
           /\ cur' = [cur EXCEPT ![q] = Start(id, obj, Null)]
           /\ born' = [born EXCEPT ![id] = obj]
           /\ how' = [how EXCEPT ![id] = "open"]
    BY <1>1 DEF InsertRow
  <2>2. id \in Ids /\ obj \in Object /\ born[id] = Null
    BY ConstantsAssumption DEF Unborn, IInv, HistoryInv
  <2>3. \A other \in Ids \ {id} : Row(other)' = Row(other)
    BY <2>1, <2>2, RowWritten
  <2>4. BornStays /\ DeadStays
    BY <2>1, <2>2, <2>3, ConstantsAssumption DEF BornStays, DeadStays, Live, HistoryOK
  <2>5. EdgesGrow /\ EntriesStay
    BY <1>1 DEF InsertRow, EdgesGrow, EntriesStay
  <2>6. \A p \in Procs \ {q} : pc'[p] = pc[p] /\ cur'[p] = cur[p]
    BY <1>1, <2>1 DEF InsertRow, Goto, CallsOK
  <2>7. \A p \in Procs \ {q} : Inserting(p) => cur[p].id \in Ids /\ cur[p].id # id
    BY <2>2 DEF IInv, CallInv, CallsOK, Inserting
  <2>8. OthersKept(q)
    BY <2>1, <2>2, <2>6, <2>7 DEF OthersKept, HistoryOK
  <2>9. DoneByReturn(q)
    BY <2>1, <2>2 DEF DoneByReturn, HistoryOK
  <2> QED BY <2>4, <2>5, <2>8, <2>9
<1>2. CASE BulkInsert(q)
  <2>1. PICK S \in SUBSET Unborn, type \in Types :
          /\ \E new \in [S -> {obj \in InsertObjs : obj.type = type}] :
               /\ objects' = [objects EXCEPT ![0] =
                               [id \in Ids |-> IF id \in S THEN new[id] ELSE @[id]]]
               /\ born' = [id \in Ids |-> IF id \in S THEN new[id] ELSE born[id]]
          /\ how' = [id \in Ids |-> IF id \in S THEN "bulk" ELSE how[id]]
    BY <1>2 DEF BulkInsert
  <2>2. \A id \in S : id \in Ids /\ born[id] = Null /\ how[id] = "unborn"
    BY <2>1 DEF Unborn, IInv, HistoryInv
  <2>3. NumShards = 1 /\ 0 \in Shards
    BY <1>2 DEF BulkInsert
  <2>4. \A id \in Ids \ S : Row(id)' = Row(id) /\ born'[id] = born[id]
    BY <2>1, <2>3, ShardOfId DEF Row, StoresOK
  <2>5. \A id \in S : born'[id] # Null
    <3>1. PICK new \in [S -> {obj \in InsertObjs : obj.type = type}] :
            born' = [id \in Ids |-> IF id \in S THEN new[id] ELSE born[id]]
      BY <2>1
    <3>2. \A id \in S : new[id] \in Object
      BY <3>1, ConstantsAssumption
    <3> QED BY <2>2, <3>1, <3>2, ConstantsAssumption
  <2> BornStays /\ DeadStays
    BY <2>2, <2>4, <2>5 DEF BornStays, DeadStays, Live
  <2>6. EdgesGrow /\ EntriesStay
    BY <1>2 DEF BulkInsert, EdgesGrow, EntriesStay
  <2>7. \A p \in Procs : Inserting(p) => cur[p].id \in Ids \ S
    BY <2>2 DEF IInv, CallInv, CallsOK, Inserting
  <2>8. OthersKept(q)
    BY <1>2, <2>1, <2>7 DEF BulkInsert, OthersKept
  <2>9. DoneByReturn(q)
    BY <2>1 DEF DoneByReturn
  <2> QED BY <2>6, <2>8, <2>9
<1>3. CASE UpdateRead(q) \/ DeleteRead(q)
  <2>1. /\ UNCHANGED <<objects, edges, indexes, born, how>>
        /\ \A p \in Procs \ {q} : pc'[p] = pc[p] /\ cur'[p] = cur[p]
    BY <1>3 DEF UpdateRead, DeleteRead, stores, Goto, CallsOK
  <2> QED BY <2>1, QuietFacts DEF EdgesGrow, EntriesStay, OthersKept, DoneByReturn
<1>4. CASE InsertEdge(q)
  <2>1. EdgesGrow
    BY <1>4 DEF InsertEdge, EdgesGrow, StoresOK
  <2>2. UNCHANGED <<objects, indexes, born, how>>
    BY <1>4 DEF InsertEdge
  <2> QED BY <1>4, <2>1, <2>2, QuietFacts, AdvanceTyped
          DEF InsertEdge, Advance, EntriesStay, OthersKept, DoneByReturn
<1>5. CASE EdgesDone(q)
  <2>1. UNCHANGED <<objects, edges, indexes, born, how>>
    BY <1>5 DEF EdgesDone, stores
  <2>2. \A p \in Procs \ {q} : pc'[p] = pc[p] /\ cur'[p] = cur[p]
    BY <1>5 DEF EdgesDone, Goto, CallsOK
  <2> QED BY <2>1, <2>2, QuietFacts DEF EdgesGrow, EntriesStay, OthersKept, DoneByReturn
<1>6. CASE InsertIndexEntry(q)
  <2>1. EntriesStay
    BY <1>6 DEF InsertIndexEntry, EntriesStay, StoresOK
  <2>2. UNCHANGED <<objects, edges, born, how>>
    BY <1>6 DEF InsertIndexEntry
  <2> QED BY <1>6, <2>1, <2>2, QuietFacts, AdvanceTyped
          DEF InsertIndexEntry, Advance, EdgesGrow, OthersKept, DoneByReturn
<1>7. CASE InsertReturn(q)
  <2>1. UNCHANGED <<objects, edges, indexes, born>>
    BY <1>7 DEF InsertReturn, stores
  <2>2. \A p \in Procs \ {q} : pc'[p] = pc[p] /\ cur'[p] = cur[p]
    BY <1>7 DEF InsertReturn, Return, Goto, CallsOK
  <2>3. Inserting(q)
    BY <1>7 DEF InsertReturn, Inserting
  <2>4. \A p \in Procs \ {q} : Inserting(p) => cur[p].id # cur[q].id
    BY <2>3 DEF IInv, OneInserter
  <2>5. how' = [how EXCEPT ![cur[q].id] = "done"]
    BY <1>7 DEF InsertReturn
  <2>6. OthersKept(q)
    BY <2>2, <2>4, <2>5 DEF OthersKept, HistoryOK, CallsOK, Inserting
  <2>7. DoneByReturn(q)
    BY <1>7, <2>5 DEF DoneByReturn, HistoryOK
  <2> QED BY <2>1, <2>6, <2>7, QuietFacts DEF EdgesGrow, EntriesStay
<1>8. CASE UpdateWrite(q)
  <2>1. PICK id \in Ids : id = cur[q].id
    BY <1>8 DEF UpdateWrite
  <2>2. Row(id) \in Object \cup {Null} /\ cur[q].obj \in Object /\ cur[q].patch \in Data
    BY <1>8, <2>1, ShardOfId DEF UpdateWrite, Row, StoresOK, CallsOK
  <2>3. PICK new \in Object \cup {Null} : new = ReplaceRow(Row(id), cur[q].obj, cur[q].patch)
    BY <2>2, ReplaceRowTyped
  <2>4. /\ objects' = [objects EXCEPT ![ShardOf(id)][id] = new]
        /\ Row(id) = Null => new = Null
    <3>1. Row(id) = Null => new = Null
      BY <2>2, <2>3, ReplaceRowTyped
    <3>2. objects' = [objects EXCEPT ![ShardOf(id)][id] = new]
      BY <1>8, <2>1, <2>3 DEF UpdateWrite, Row
    <3> QED BY <3>1, <3>2
  <2>5. Row(id)' = new /\ \A other \in Ids \ {id} : Row(other)' = Row(other)
    BY <2>1, <2>3, <2>4, RowWritten
  <2>6. BornStays /\ DeadStays
    BY <1>8, <2>4, <2>5 DEF UpdateWrite, BornStays, DeadStays, Live
  <2>7. \A p \in Procs \ {q} : pc'[p] = pc[p] /\ cur'[p] = cur[p]
    BY <1>8 DEF UpdateWrite, Return, Goto, CallsOK
  <2> QED BY <1>8, <2>6, <2>7
          DEF UpdateWrite, EdgesGrow, EntriesStay, OthersKept, DoneByReturn
<1>9. CASE DeleteRow(q)
  <2>1. cur[q].id \in Ids
    BY <1>9 DEF DeleteRow, CallsOK
  <2>2. Row(cur[q].id)' = Null /\ \A other \in Ids \ {cur[q].id} : Row(other)' = Row(other)
    BY <1>9, <2>1, RowWritten DEF DeleteRow
  <2>3. BornStays /\ DeadStays
    BY <1>9, <2>2 DEF DeleteRow, BornStays, DeadStays, Live
  <2> QED BY <1>9, <2>3
          DEF DeleteRow, Goto, CallsOK, EdgesGrow, EntriesStay, OthersKept, DoneByReturn
<1>10. CASE DeleteIndexEntry(q)
  <2>1. UNCHANGED <<objects, edges, born, how>>
    BY <1>10 DEF DeleteIndexEntry
  <2>2. PICK id \in Ids : id = cur[q].id
    BY <1>10 DEF DeleteIndexEntry
  <2>3. ~Live(id)'
    BY <1>10, <2>1, <2>2, QuietFacts DEF DeleteIndexEntry, IInv, CallInv
  <2>4. EntriesStay
    <3> SUFFICES ASSUME NEW s \in Shards, NEW row \in indexes[s], Live(row.target)'
                 PROVE  row \in indexes'[s]
      BY DEF EntriesStay
    <3> DEFINE d == IndexDefs[cur[q].k]
    <3>1. row # IndexRow(d, cur[q].obj, cur[q].id)
      <4>1. IndexRow(d, cur[q].obj, cur[q].id).target = id
        BY <2>2 DEF IndexRow
      <4> QED BY <2>3, <4>1
    <3> QED BY <1>10, <3>1 DEF DeleteIndexEntry, DeleteEntry, StoresOK
  <2> QED BY <1>10, <2>1, <2>4, QuietFacts, AdvanceTyped
          DEF DeleteIndexEntry, Advance, EdgesGrow, OthersKept, DoneByReturn
<1>11. CASE DeleteReturn(q)
  <2>1. UNCHANGED <<objects, edges, indexes, born, how>>
    BY <1>11 DEF DeleteReturn, stores
  <2>2. \A p \in Procs \ {q} : pc'[p] = pc[p] /\ cur'[p] = cur[p]
    BY <1>11 DEF DeleteReturn, Return, Goto, CallsOK
  <2> QED BY <2>1, <2>2, QuietFacts DEF EdgesGrow, EntriesStay, OthersKept, DoneByReturn
<1>12. CASE Fault(q)
  <2>1. Abandon(q)
    BY <1>12 DEF Fault, StatementFails, ProcessRestarts
  <2>2. UNCHANGED <<objects, edges, indexes, born>>
    BY <2>1 DEF Abandon, stores
  <2>3. \A p \in Procs \ {q} : pc'[p] = pc[p] /\ cur'[p] = cur[p]
    BY <2>1 DEF Abandon, Return, Goto, CallsOK
  <2>4. \A p \in Procs \ {q} : Inserting(p) /\ Inserting(q) => cur[p].id # cur[q].id
    BY DEF IInv, OneInserter
  <2>5. how' = IF Inserting(q) THEN [how EXCEPT ![cur[q].id] = "cut"] ELSE how
    BY <2>1 DEF Abandon
  <2>6. OthersKept(q)
    BY <2>3, <2>4, <2>5 DEF OthersKept, HistoryOK, CallsOK, Inserting
  <2>7. DoneByReturn(q)
    BY <2>5 DEF DoneByReturn, HistoryOK
  <2> QED BY <2>2, <2>6, <2>7, QuietFacts DEF EdgesGrow, EntriesStay
<1> QED
  BY <1>1, <1>2, <1>3, <1>4, <1>5, <1>6, <1>7, <1>8, <1>9, <1>10, <1>11, <1>12
     DEF Action, Begin, Continue
-----------------------------------------------------------------------------
(* A definition's row, once stored, stays.                                 *)

(* The source of an applicable edge definition is an id.                   *)
LEMMA SourceIsId ==
  ASSUME HistoryInv, NEW id \in Ids, born[id] # Null,
         NEW j \in DOMAIN EdgeDefs, Applicable(EdgeDefs[j], born[id])
  PROVE  born[id].data[EdgeDefs[j].attr] \in Ids
  BY StoredIdsAssumption DEF HistoryInv, Applicable

(* A stored edge survives every step: nothing deletes edges.               *)
LEMMA EdgeKept ==
  ASSUME HistoryInv, EdgesGrow, BornStays,
         NEW id \in Ids, born[id] # Null, NEW j \in DOMAIN EdgeDefs, HasEdge(id, j)
  PROVE  HasEdge(id, j)'
<1>1. born'[id] = born[id]
  BY DEF BornStays
<1>2. ASSUME Applicable(EdgeDefs[j], born[id])
      PROVE  HasEdge(id, j)'
  <2>1. ShardOf(EdgeRow(EdgeDefs[j], born[id], id).from) \in Shards
    BY <1>2, SourceIsId, ShardOfId DEF EdgeRow
  <2> QED BY <1>1, <1>2, <2>1 DEF HasEdge, EdgesGrow
<1> QED BY <1>1, <1>2 DEF HasEdge

(* A live object's index entry survives every step.                        *)
LEMMA EntryKept ==
  ASSUME EntriesStay, BornStays,
         NEW id \in Ids, born[id] # Null, Live(id)',
         NEW j \in DOMAIN IndexDefs, HasEntry(id, j)
  PROVE  HasEntry(id, j)'
<1>1. born'[id] = born[id]
  BY DEF BornStays
<1>2. IndexRow(IndexDefs[j], born[id], id).target = id
  BY DEF IndexRow
<1> QED BY <1>1, <1>2 DEF HasEntry, EntriesStay

(* EdgeKept, for all the edges of an object.                               *)
LEMMA AllEdgesKept ==
  ASSUME HistoryInv, EdgesGrow, BornStays, NEW id \in Ids, born[id] # Null, HasEdges(id)
  PROVE  HasEdges(id)'
  BY EdgeKept DEF HasEdges

(* EntryKept, for all the index entries of an object.                      *)
LEMMA AllEntriesKept ==
  ASSUME EntriesStay, BornStays, NEW id \in Ids, born[id] # Null, Live(id)', HasIndexEntries(id)
  PROVE  HasIndexEntries(id)'
  BY EntryKept DEF HasIndexEntries

(* A call that another process's step does not touch keeps its invariant.  *)
LEMMA CallKept ==
  ASSUME HistoryInv, EdgesGrow, BornStays, DeadStays, EntriesStay,
         NEW p \in Procs, pc[p] # "idle" => cur[p].id \in Ids,
         pc'[p] = pc[p], cur'[p] = cur[p],
         Inserting(p) => how'[cur[p].id] = how[cur[p].id],
         CallInv(p)
  PROVE  CallInv(p)'
<1>1. CASE pc[p] = "idle"
  BY <1>1 DEF CallInv, Inserting
<1>2. CASE pc[p] # "idle"
  <2>1. PICK id \in Ids : id = cur[p].id
    BY <1>2
  <2>2. born[id] # Null /\ born'[id] = born[id]
    BY <1>2, <2>1 DEF CallInv, BornStays
  <2>3. Inserting(p)' => how'[id] = "open" /\ cur'[p].obj = born'[id]
    BY <2>1, <2>2 DEF CallInv, Inserting
  <2>4. ASSUME pc[p] = "edges", NEW j \in DOMAIN EdgeDefs, j < cur[p].k
        PROVE  HasEdge(id, j)'
    BY <2>1, <2>2, <2>4, EdgeKept DEF CallInv
  <2>5. ASSUME pc[p] = "indexes"
        PROVE  /\ HasEdges(id)'
               /\ Live(id)' => \A j \in DOMAIN IndexDefs : j < cur[p].k => HasEntry(id, j)'
    <3>1. HasEdges(id)'
      BY <2>1, <2>2, <2>5, AllEdgesKept DEF CallInv
    <3>2. Live(id)' => Live(id)
      BY <2>2 DEF DeadStays
    <3> QED BY <2>1, <2>2, <2>5, <3>1, <3>2, EntryKept DEF CallInv
  <2>6. pc[p] = "unindex" => ~Live(id)'
    BY <2>1, <2>2 DEF CallInv, DeadStays
  <2> QED BY <1>2, <2>1, <2>2, <2>3, <2>4, <2>5, <2>6 DEF CallInv
<1> QED BY <1>1, <1>2

(* The step of a process establishes what its own next phase relies on.    *)
LEMMA ActorKept ==
  ASSUME TypeOK, IInv, NEW q \in Procs, Action(q), StepFacts(q)
  PROVE  CallInv(q)'
<1> USE DEF StepFacts, TypeOK
<1>a. /\ cur[q] \in Call
      /\ pc[q] # "idle" => cur[q].id \in Ids /\ cur[q].obj \in Object
      /\ pc \in [Procs -> Phases]
      /\ cur \in [Procs -> Call]
      /\ CallInv(q)
      /\ HistoryInv
  BY DEF CallsOK, IInv
<1>b. ASSUME Return(q) PROVE CallInv(q)'
  BY <1>a, <1>b DEF Return, Goto, CallInv, Inserting
<1>1. CASE InsertRow(q)
  <2>1. PICK id \in Unborn, obj \in InsertObjs :
           /\ cur' = [cur EXCEPT ![q] = Start(id, obj, Null)]
           /\ born' = [born EXCEPT ![id] = obj]
           /\ how' = [how EXCEPT ![id] = "open"]
    BY <1>1 DEF InsertRow
  <2>2. id \in Ids /\ obj \in Object /\ obj # Null
    BY ConstantsAssumption DEF Unborn
  <2>3. pc'[q] = "edges" /\ cur'[q] = Start(id, obj, Null)
    BY <1>1, <1>a, <2>1 DEF InsertRow, Goto
  <2>4. cur'[q].id = id /\ cur'[q].obj = obj /\ cur'[q].k = 1
    BY <2>2, <2>3, StartTyped
  <2>5. how'[id] = "open" /\ born'[id] = obj
    BY <2>1, <2>2 DEF HistoryOK
  <2> QED BY <2>2, <2>3, <2>4, <2>5, DefsTyped DEF CallInv, Inserting
<1>2. CASE BulkInsert(q)
  <2>1. pc'[q] = "idle"
    BY <1>2 DEF BulkInsert
  <2> QED BY <2>1 DEF CallInv, Inserting
<1>3. CASE UpdateRead(q) \/ DeleteRead(q)
  <2>1. PICK id \in Ids, patch \in Patches \cup {Null} :
          Live(id) /\ cur' = [cur EXCEPT ![q] = Start(id, Row(id), patch)]
    BY <1>3 DEF UpdateRead, DeleteRead
  <2>2. cur'[q].id = id
    BY <1>a, <2>1 DEF Start
  <2>3. pc'[q] \in {"write", "row"} /\ UNCHANGED <<objects, born>>
    BY <1>3, <1>a DEF UpdateRead, DeleteRead, Goto, stores
  <2>4. born'[id] # Null
    BY <1>a, <2>1, <2>3 DEF HistoryInv
  <2> QED BY <2>2, <2>3, <2>4 DEF CallInv, Inserting
<1>4. CASE InsertEdge(q)
  <2>1. PICK id \in Ids : id = cur[q].id
    BY <1>4, <1>a DEF InsertEdge
  <2>2. /\ pc[q] = "edges" /\ pc'[q] = "edges"
        /\ cur'[q].k = cur[q].k + 1 /\ cur'[q].id = id /\ cur'[q].obj = cur[q].obj
        /\ UNCHANGED <<objects, born, how>>
    BY <1>4, <2>1, AdvanceTyped DEF InsertEdge, Advance
  <2>3. cur[q].obj = born[id] /\ born[id] # Null /\ how[id] = "open"
    BY <1>a, <2>1, <2>2 DEF CallInv, Inserting
  <2>4. cur[q].k \in DOMAIN EdgeDefs
    BY <1>4, <1>a, DefsTyped DEF InsertEdge, Call
  <2>5. PICK n \in DOMAIN EdgeDefs : n = cur[q].k
    BY <2>4
  <2>6. HasEdge(id, n)'
    <3> DEFINE d == EdgeDefs[n]
               row == EdgeRow(d, born[id], id)
    <3>1. ASSUME Applicable(d, born[id]) PROVE row \in edges'[ShardOf(row.from)]
      <4>1. ShardOf(row.from) \in Shards
        BY <1>a, <2>3, <3>1, SourceIsId, ShardOfId DEF EdgeRow
      <4> QED BY <1>4, <2>1, <2>3, <2>5, <3>1, <4>1 DEF InsertEdge, EdgeShard, StoresOK
    <3> QED BY <2>2, <3>1 DEF HasEdge
  <2>7. ASSUME NEW j \in DOMAIN EdgeDefs, j < cur'[q].k PROVE HasEdge(id, j)'
    <3>1. CASE j = n
      BY <2>6, <3>1
    <3>2. CASE j # n
      <4>1. j < cur[q].k
        BY <2>2, <2>5, <2>7, <3>2, DefsTyped
      <4> QED BY <1>a, <2>1, <2>2, <2>3, <4>1, EdgeKept DEF CallInv
    <3> QED BY <3>1, <3>2
  <2> QED BY <2>2, <2>3, <2>7 DEF CallInv, Inserting
<1>5. CASE EdgesDone(q)
  <2>1. PICK id \in Ids : id = cur[q].id
    BY <1>5, <1>a DEF EdgesDone
  <2>2. /\ pc[q] = "edges" /\ pc'[q] = "indexes"
        /\ cur'[q].k = 1 /\ cur'[q].id = id /\ cur'[q].obj = cur[q].obj
        /\ UNCHANGED <<objects, edges, indexes, born, how>>
    <3>1. cur'[q] = [cur[q] EXCEPT !.k = 1] /\ 1 \in Nat \ {0}
      BY <1>5, <1>a DEF EdgesDone
    <3>2. cur'[q].k = 1 /\ cur'[q].id = id /\ cur'[q].obj = cur[q].obj
      BY <1>a, <2>1, <3>1, Stepped
    <3> QED BY <1>5, <1>a, <3>2 DEF EdgesDone, Goto, stores, Phases
  <2>3. cur[q].obj = born[id] /\ born[id] # Null /\ how[id] = "open"
    BY <1>a, <2>1, <2>2 DEF CallInv, Inserting
  <2>4. HasEdges(id)
    <3> SUFFICES ASSUME NEW j \in DOMAIN EdgeDefs PROVE HasEdge(id, j)
      BY DEF HasEdges
    <3>1. j < cur[q].k
      BY <1>5, <1>a, DefsTyped DEF EdgesDone, Call
    <3> QED BY <1>a, <2>1, <2>2, <3>1 DEF CallInv
  <2>5. HasEdges(id)'
    BY <1>a, <2>3, <2>4, AllEdgesKept
  <2> QED BY <2>2, <2>3, <2>5, DefsTyped DEF CallInv, Inserting
<1>6. CASE InsertIndexEntry(q)
  <2>1. PICK id \in Ids : id = cur[q].id
    BY <1>6, <1>a DEF InsertIndexEntry
  <2>2. /\ pc[q] = "indexes" /\ pc'[q] = "indexes"
        /\ cur'[q].k = cur[q].k + 1 /\ cur'[q].id = id /\ cur'[q].obj = cur[q].obj
        /\ UNCHANGED <<objects, edges, born, how>>
    BY <1>6, <2>1, AdvanceTyped DEF InsertIndexEntry, Advance
  <2>3. cur[q].obj = born[id] /\ born[id] \in Object /\ born[id] # Null /\ how[id] = "open"
    BY <1>6, <1>a, <2>1, <2>2 DEF CallInv, Inserting
  <2>4. cur[q].k \in DOMAIN IndexDefs
    BY <1>6, <1>a, DefsTyped DEF InsertIndexEntry, Call
  <2>5. PICK n \in DOMAIN IndexDefs : n = cur[q].k
    BY <2>4
  <2>6. HasEntry(id, n)'
    <3> DEFINE d == IndexDefs[n]
               row == IndexRow(d, born[id], id)
    <3>1. ASSUME Applicable(d, born[id]) PROVE \E s \in Shards : row \in indexes'[s]
      <4>1. row.value \in Values
        BY <2>3, <3>1, DefsTyped, RowsTyped DEF IndexRow
      <4>2. hash[q][row.value] \in Shards
        BY <4>1, ConstantsAssumption DEF HistoryOK
      <4>3. indexes' = [indexes EXCEPT ![hash[q][row.value]] = @ \cup {row}]
        BY <1>6, <2>1, <2>3, <2>5, <3>1 DEF InsertIndexEntry
      <4> QED BY <4>2, <4>3 DEF StoresOK
    <3> QED BY <2>2, <3>1 DEF HasEntry
  <2>7. ASSUME Live(id)', NEW j \in DOMAIN IndexDefs, j < cur'[q].k PROVE HasEntry(id, j)'
    <3>1. CASE j = n
      BY <2>6, <3>1
    <3>2. CASE j # n
      <4>1. j < cur[q].k
        BY <2>2, <2>5, <2>7, <3>2, DefsTyped
      <4>2. Live(id)
        BY <2>3, <2>7 DEF DeadStays
      <4> QED BY <1>a, <2>1, <2>2, <2>3, <2>7, <4>1, <4>2, EntryKept DEF CallInv
    <3> QED BY <3>1, <3>2
  <2>8. HasEdges(id)'
    BY <1>a, <2>1, <2>2, <2>3, AllEdgesKept DEF CallInv
  <2> QED BY <2>2, <2>3, <2>7, <2>8 DEF CallInv, Inserting
<1>7. CASE InsertReturn(q) \/ UpdateWrite(q) \/ DeleteReturn(q)
  BY <1>7, <1>b DEF InsertReturn, UpdateWrite, DeleteReturn
<1>8. CASE DeleteRow(q)
  <2>1. PICK id \in Ids : id = cur[q].id
    BY <1>8, <1>a DEF DeleteRow
  <2>2. Row(id)' = Null
    BY <1>8, <2>1, RowWritten DEF DeleteRow
  <2>3. pc'[q] = "unindex" /\ cur'[q].id = id /\ born' = born /\ pc[q] = "row"
    BY <1>8, <1>a, <2>1 DEF DeleteRow, Goto
  <2> QED BY <1>a, <2>1, <2>2, <2>3 DEF CallInv, Inserting, Live
<1>9. CASE DeleteIndexEntry(q)
  <2>1. PICK id \in Ids : id = cur[q].id
    BY <1>9, <1>a DEF DeleteIndexEntry
  <2>2. /\ pc[q] = "unindex" /\ pc'[q] = "unindex" /\ cur'[q].id = id
        /\ UNCHANGED <<objects, born>>
    BY <1>9, <2>1, AdvanceTyped DEF DeleteIndexEntry, Advance
  <2>3. ~Live(id)' /\ born'[id] # Null
    BY <1>a, <2>1, <2>2 DEF CallInv, DeadStays
  <2> QED BY <2>2, <2>3 DEF CallInv, Inserting
<1>10. CASE Fault(q)
  BY <1>10, <1>b DEF Fault, StatementFails, ProcessRestarts, Abandon
<1> QED
  BY <1>1, <1>2, <1>3, <1>4, <1>5, <1>6, <1>7, <1>8, <1>9, <1>10
     DEF Action, Begin, Continue

(* Only an insert, single or bulk, adds an id to the history.              *)
LEMMA HistoryKept ==
  ASSUME TypeOK, IInv, NEW q \in Procs, Action(q)
  PROVE  HistoryInv'
<1> USE DEF TypeOK
<1>a. HistoryInv
  BY DEF IInv
<1>b. pc[q] # "idle" => cur[q].id \in Ids /\ born[cur[q].id] # Null
  BY DEF IInv, CallInv, CallsOK
<1>c. StepFacts(q)
  BY StepFactsHold DEF TypeOK
<1>1. CASE InsertRow(q)
  <2>1. PICK id \in Unborn, obj \in InsertObjs :
           /\ objects' = [objects EXCEPT ![ShardOf(id)][id] = obj]
           /\ born' = [born EXCEPT ![id] = obj]
           /\ how' = [how EXCEPT ![id] = "open"]
    BY <1>1 DEF InsertRow
  <2>2. id \in Ids /\ obj \in Object /\ obj # Null
    BY ConstantsAssumption DEF Unborn
  <2>3. \A other \in Ids \ {id} : Row(other)' = Row(other)
    BY <2>1, <2>2, RowWritten
  <2> QED BY <1>a, <2>1, <2>2, <2>3 DEF HistoryInv, HistoryOK, Live
<1>2. CASE BulkInsert(q)
  <2>1. PICK S \in SUBSET Unborn, type \in Types :
          /\ \E new \in [S -> {obj \in InsertObjs : obj.type = type}] :
               /\ objects' = [objects EXCEPT ![0] =
                               [id \in Ids |-> IF id \in S THEN new[id] ELSE @[id]]]
               /\ born' = [id \in Ids |-> IF id \in S THEN new[id] ELSE born[id]]
          /\ how' = [id \in Ids |-> IF id \in S THEN "bulk" ELSE how[id]]
    BY <1>2 DEF BulkInsert
  <2>2. PICK new \in [S -> {obj \in InsertObjs : obj.type = type}] :
               /\ objects' = [objects EXCEPT ![0] =
                               [id \in Ids |-> IF id \in S THEN new[id] ELSE @[id]]]
               /\ born' = [id \in Ids |-> IF id \in S THEN new[id] ELSE born[id]]
    BY <2>1
  <2>3. \A id \in S : new[id] \in InsertObjs /\ new[id] # Null
    BY <2>2, ConstantsAssumption
  <2>4. NumShards = 1 /\ 0 \in Shards
    BY <1>2 DEF BulkInsert
  <2>5. \A id \in Ids \ S : Row(id)' = Row(id)
    BY <2>2, <2>4, ShardOfId DEF Row, StoresOK
  <2> QED BY <1>a, <2>1, <2>2, <2>3, <2>5 DEF HistoryInv, HistoryOK, Live
<1>3. CASE InsertReturn(q)
  <2>1. how' = [how EXCEPT ![cur[q].id] = "done"] /\ UNCHANGED <<objects, born>>
    BY <1>3 DEF InsertReturn, stores
  <2>2. \A id \in Ids : how'[id] = "unborn" <=> how[id] = "unborn"
    BY <1>3, <1>a, <1>b, <2>1 DEF InsertReturn, HistoryInv, HistoryOK
  <2> QED BY <1>a, <2>1, <2>2 DEF HistoryInv, Live, Row
<1>4. CASE Fault(q)
  <2>1. /\ how' = IF Inserting(q) THEN [how EXCEPT ![cur[q].id] = "cut"] ELSE how
        /\ UNCHANGED <<objects, born>>
    BY <1>4 DEF Fault, StatementFails, ProcessRestarts, Abandon, stores
  <2>2. \A id \in Ids : how'[id] = "unborn" <=> how[id] = "unborn"
    BY <1>a, <1>b, <2>1 DEF HistoryInv, HistoryOK, Inserting
  <2> QED BY <1>a, <2>1, <2>2 DEF HistoryInv, Live, Row
<1>5. CASE UpdateWrite(q) \/ DeleteRow(q)
  <2>1. UNCHANGED <<born, how>>
    BY <1>5 DEF UpdateWrite, DeleteRow
  <2> QED BY <1>a, <1>c, <2>1 DEF HistoryInv, StepFacts, DeadStays
<1>6. CASE \/ UpdateRead(q) \/ DeleteRead(q) \/ InsertEdge(q) \/ EdgesDone(q)
           \/ InsertIndexEntry(q) \/ DeleteIndexEntry(q) \/ DeleteReturn(q)
  <2>1. UNCHANGED <<objects, born, how>>
    BY <1>6 DEF UpdateRead, DeleteRead, InsertEdge, EdgesDone, InsertIndexEntry,
                DeleteIndexEntry, DeleteReturn, stores
  <2> QED BY <1>a, <2>1 DEF HistoryInv, Live, Row
<1> QED BY <1>1, <1>2, <1>3, <1>4, <1>5, <1>6 DEF Action, Begin, Continue

(* Every row is written to the shard its readers ask.                      *)
LEMMA PlacementKept ==
  ASSUME TypeOK, IInv, NEW q \in Procs, Action(q)
  PROVE  Placement'
<1> USE DEF TypeOK
<1>a. Placement /\ HistoryInv
  BY DEF IInv
<1>1. CASE InsertRow(q)
  <2>1. PICK id \in Unborn, obj \in InsertObjs :
           objects' = [objects EXCEPT ![ShardOf(id)][id] = obj]
    BY <1>1 DEF InsertRow
  <2>2. id \in Ids /\ obj \in Object /\ edges' = edges
    BY <1>1, ConstantsAssumption DEF InsertRow, Unborn
  <2> QED BY <1>a, <2>1, <2>2, RowWritten DEF Placement
<1>2. CASE BulkInsert(q)
  <2>1. NumShards = 1 /\ edges' = edges
    BY <1>2 DEF BulkInsert
  <2>2. \A s \in Shards, id \in Ids : s = ShardOf(id)
    BY <2>1, ShardOfId
  <2> QED BY <1>a, <2>1, <2>2 DEF Placement
<1>3. CASE UpdateWrite(q)
  <2>1. PICK id \in Ids : id = cur[q].id
    BY <1>3 DEF UpdateWrite, CallsOK
  <2>2. Row(id) \in Object \cup {Null} /\ cur[q].obj \in Object /\ cur[q].patch \in Data
    BY <1>3, <2>1, ShardOfId DEF UpdateWrite, Row, StoresOK, CallsOK
  <2>3. PICK new \in Object \cup {Null} : new = ReplaceRow(Row(id), cur[q].obj, cur[q].patch)
    BY <2>2, ReplaceRowTyped
  <2>4. objects' = [objects EXCEPT ![ShardOf(id)][id] = new] /\ edges' = edges
    BY <1>3, <2>1, <2>3 DEF UpdateWrite, Row
  <2> QED BY <1>a, <2>1, <2>3, <2>4, RowWritten DEF Placement
<1>4. CASE DeleteRow(q)
  <2>1. PICK id \in Ids : id = cur[q].id
    BY <1>4 DEF DeleteRow, CallsOK
  <2>2. objects' = [objects EXCEPT ![ShardOf(id)][id] = Null] /\ edges' = edges
    BY <1>4, <2>1 DEF DeleteRow
  <2> QED BY <1>a, <2>1, <2>2, RowWritten DEF Placement
<1>5. CASE InsertEdge(q)
  <2>1. PICK id \in Ids : id = cur[q].id
    BY <1>5 DEF InsertEdge, CallsOK
  <2>2. PICK n \in DOMAIN EdgeDefs : n = cur[q].k
    BY <1>5, DefsTyped DEF InsertEdge, CallsOK, Call
  <2>3. cur[q].obj = born[id] /\ born[id] # Null
    BY <1>5, <2>1 DEF InsertEdge, Inserting, IInv, CallInv
  <2> DEFINE row == EdgeRow(EdgeDefs[n], born[id], id)
  <2>4. Applicable(EdgeDefs[n], born[id]) => row.from \in Ids
    BY <1>a, <2>3, SourceIsId DEF EdgeRow
  <2>5. edges' = IF Applicable(EdgeDefs[n], born[id])
                   THEN [edges EXCEPT ![ShardOf(row.from)] = @ \cup {row}]
                   ELSE edges
    BY <1>5, <2>1, <2>2, <2>3 DEF InsertEdge, EdgeShard
  <2>6. \A s \in Shards : \A r \in edges'[s] : r.from \in Ids /\ s = ShardOf(r.from)
    BY <1>a, <2>4, <2>5 DEF Placement, StoresOK
  <2> QED BY <1>5, <1>a, <2>6 DEF InsertEdge, Placement
<1>6. CASE \/ UpdateRead(q) \/ DeleteRead(q) \/ EdgesDone(q) \/ InsertIndexEntry(q)
           \/ InsertReturn(q) \/ DeleteIndexEntry(q) \/ DeleteReturn(q) \/ Fault(q)
  <2>1. UNCHANGED <<objects, edges>>
    BY <1>6 DEF UpdateRead, DeleteRead, EdgesDone, InsertIndexEntry, InsertReturn,
                DeleteIndexEntry, DeleteReturn, Fault, StatementFails, ProcessRestarts,
                Abandon, stores
  <2> QED BY <1>a, <2>1 DEF Placement
<1> QED BY <1>1, <1>2, <1>3, <1>4, <1>5, <1>6 DEF Action, Begin, Continue

(* An insert takes an id nobody is inserting.                              *)
LEMMA OneInserterKept ==
  ASSUME TypeOK, IInv, NEW q \in Procs, Action(q)
  PROVE  OneInserter'
<1> USE DEF TypeOK
<1>a. OthersKept(q)
  BY StepFactsHold DEF StepFacts
<1>b. OneInserter /\ \A p \in Procs : CallInv(p)
  BY DEF IInv
<1>c. \A p \in Procs \ {q} : Inserting(p)' => Inserting(p) /\ cur'[p] = cur[p]
  <2>1. \A p \in Procs \ {q} : pc'[p] = pc[p] /\ cur'[p] = cur[p]
    BY <1>a DEF OthersKept
  <2> QED BY <2>1 DEF Inserting
<1>1. ASSUME NEW p \in Procs \ {q}, Inserting(p)', Inserting(q)', cur'[p].id = cur'[q].id
      PROVE  FALSE
  <2>1. Inserting(p) /\ cur'[p] = cur[p] /\ cur[p].id \in Ids /\ how[cur[p].id] = "open"
    BY <1>1, <1>b, <1>c DEF CallInv, CallsOK, Inserting
  <2>2. CASE InsertRow(q)
    <3>1. PICK id \in Unborn, obj \in InsertObjs : cur' = [cur EXCEPT ![q] = Start(id, obj, Null)]
      BY <2>2 DEF InsertRow
    <3>2. cur'[q].id = id
      BY <3>1 DEF Start, CallsOK
    <3> QED BY <1>1, <2>1, <3>1, <3>2 DEF Unborn
  <2>3. CASE InsertEdge(q) \/ InsertIndexEntry(q)
    <3>1. Inserting(q) /\ cur'[q].id = cur[q].id
      BY <2>3, AdvanceTyped DEF InsertEdge, InsertIndexEntry, Inserting
    <3> QED BY <1>1, <1>b, <2>1, <3>1 DEF OneInserter
  <2>4. CASE EdgesDone(q)
    <3>1. cur[q] \in Call /\ cur'[q] = [cur[q] EXCEPT !.k = 1] /\ 1 \in Nat \ {0}
      BY <2>4 DEF EdgesDone, CallsOK
    <3>2. Inserting(q) /\ cur'[q].id = cur[q].id
      BY <2>4, <3>1, Stepped DEF EdgesDone, Inserting
    <3> QED BY <1>1, <1>b, <2>1, <3>2 DEF OneInserter
  <2>5. CASE BulkInsert(q)
    BY <1>1, <2>5 DEF BulkInsert, Inserting
  <2>6. CASE \/ UpdateRead(q) \/ DeleteRead(q) \/ DeleteRow(q) \/ InsertReturn(q)
             \/ UpdateWrite(q) \/ DeleteReturn(q) \/ DeleteIndexEntry(q) \/ Fault(q)
    <3>1. pc'[q] \in {"idle", "write", "row", "unindex"}
      BY <2>6 DEF UpdateRead, DeleteRead, DeleteRow, InsertReturn, UpdateWrite, DeleteReturn,
                  DeleteIndexEntry, Fault, StatementFails, ProcessRestarts, Abandon,
                  Return, Goto, Advance, CallsOK
    <3> QED BY <1>1, <3>1 DEF Inserting
  <2> QED BY <2>2, <2>3, <2>4, <2>5, <2>6 DEF Action, Begin, Continue
<1> QED
  <2> SUFFICES ASSUME NEW p \in Procs, NEW r \in Procs, Inserting(p)', Inserting(r)',
                      cur'[p].id = cur'[r].id, p # r
               PROVE  FALSE
    BY DEF OneInserter
  <2>1. CASE p = q \/ r = q
    BY <1>1, <2>1
  <2>2. CASE p # q /\ r # q
    BY <1>b, <1>c, <2>2 DEF OneInserter
  <2> QED BY <2>1, <2>2

(* An insert that returns has finished both loops.                         *)
LEMMA CompleteKept ==
  ASSUME TypeOK, IInv, NEW q \in Procs, Action(q)
  PROVE  EdgesComplete' /\ IndexesComplete'
<1> USE DEF TypeOK
<1>a. EdgesGrow /\ BornStays /\ DeadStays /\ EntriesStay /\ DoneByReturn(q)
  BY StepFactsHold DEF StepFacts
<1>b. HistoryInv /\ EdgesComplete /\ IndexesComplete
  BY DEF IInv
<1> SUFFICES ASSUME NEW id \in Ids, how'[id] = "done"
             PROVE  HasEdges(id)' /\ (Live(id)' => HasIndexEntries(id)')
  BY DEF EdgesComplete, IndexesComplete
<1>1. /\ born[id] # Null
      /\ HasEdges(id)
      /\ Live(id) => HasIndexEntries(id)
  <2>1. CASE how[id] = "done"
    BY <1>b, <2>1 DEF HistoryInv, EdgesComplete, IndexesComplete
  <2>2. CASE InsertReturn(q) /\ cur[q].id = id
    <3>1. CallInv(q) /\ pc[q] = "indexes"
      BY <2>2 DEF IInv, InsertReturn
    <3>2. \A j \in DOMAIN IndexDefs : j < cur[q].k
      BY <2>2, DefsTyped DEF InsertReturn, CallsOK, Call
    <3> QED BY <2>2, <3>1, <3>2 DEF CallInv, HasIndexEntries
  <2> QED BY <1>a, <2>1, <2>2 DEF DoneByReturn
<1>2. Live(id)' => Live(id)
  BY <1>a, <1>1 DEF DeadStays
<1> QED BY <1>a, <1>b, <1>1, <1>2, AllEdgesKept, AllEntriesKept

(* The inductive invariant holds of empty tables.                          *)
LEMMA IInvInit == Init => IInv
<1> SUFFICES ASSUME Init PROVE IInv
  OBVIOUS
<1>1. \A id \in Ids : ~Live(id) /\ born[id] = Null /\ how[id] = "unborn"
  BY ShardOfId DEF Init, Live, Row
<1>2. Placement
  BY DEF Init, Placement
<1>3. \A p \in Procs : pc[p] = "idle"
  BY DEF Init
<1> QED BY <1>1, <1>2, <1>3 DEF IInv, HistoryInv, OneInserter, CallInv, Inserting,
                               EdgesComplete, IndexesComplete

(* Every step of every process keeps the inductive invariant.              *)
LEMMA IInvNext == TypeOK /\ IInv /\ [Next]_vars => IInv'
<1> SUFFICES ASSUME TypeOK, IInv, [Next]_vars PROVE IInv'
  OBVIOUS
<1>1. CASE UNCHANGED vars
  BY <1>1 DEF vars, IInv, Placement, HistoryInv, OneInserter, CallInv, Inserting,
              EdgesComplete, IndexesComplete, HasEdges, HasIndexEntries, HasEdge, HasEntry,
              Live, Row
<1>2. ASSUME NEW q \in Procs, Action(q) PROVE IInv'
  <2>1. StepFacts(q)
    BY <1>2, StepFactsHold
  <2>2. CallInv(q)'
    BY <1>2, <2>1, ActorKept
  <2>3. ASSUME NEW p \in Procs \ {q} PROVE CallInv(p)'
    <3>1. HistoryInv /\ CallInv(p) /\ (pc[p] # "idle" => cur[p].id \in Ids)
      BY DEF IInv, TypeOK, CallsOK
    <3>2. /\ EdgesGrow /\ BornStays /\ DeadStays /\ EntriesStay
          /\ pc'[p] = pc[p] /\ cur'[p] = cur[p]
          /\ Inserting(p) => how'[cur[p].id] = how[cur[p].id]
      BY <2>1, <2>3 DEF StepFacts, OthersKept
    <3> QED BY <3>1, <3>2, CallKept
  <2>4. \A p \in Procs : CallInv(p)'
    BY <2>2, <2>3
  <2>5. Placement' /\ HistoryInv' /\ OneInserter' /\ EdgesComplete' /\ IndexesComplete'
    BY <1>2, PlacementKept, HistoryKept, OneInserterKept, CompleteKept
  <2> QED BY <2>4, <2>5 DEF IInv
<1> QED BY <1>1, <1>2 DEF Next, Action

(* The inductive invariant holds in every reachable state.                 *)
LEMMA Invariance == Spec => [](TypeOK /\ IInv)
<1>1. TypeOK /\ IInv /\ [Next]_vars => TypeOK' /\ IInv'
  BY TypeNext, IInvNext
<1> QED BY <1>1, TypeInit, IInvInit, PTL DEF Spec

-----------------------------------------------------------------------------
(* A derived row keeps the canonical data it came from.                    *)
LEMMA CanonicalKept ==
  ASSUME BornStays, NEW row
  PROVE  /\ row.to \in Ids /\ EdgeFromCanonical(row) => EdgeFromCanonical(row)'
         /\ row.target \in Ids /\ EntryFromCanonical(row) => EntryFromCanonical(row)'
  BY DEF BornStays, EdgeFromCanonical, EntryFromCanonical

(* Inserts write derived rows from what they inserted, only.               *)
LEMMA DerivedNext ==
  ASSUME TypeOK, IInv, DerivedFromCanonical, NEW q \in Procs, Action(q)
  PROVE  DerivedFromCanonical'
<1> USE DEF TypeOK
<1>a. BornStays
  BY StepFactsHold DEF StepFacts
<1>b. \A s \in Shards : /\ \A row \in edges[s] : row.to \in Ids /\ EdgeFromCanonical(row)'
                        /\ \A row \in indexes[s] : row.target \in Ids /\ EntryFromCanonical(row)'
  BY <1>a, CanonicalKept DEF StoresOK, DerivedFromCanonical
<1>1. CASE InsertEdge(q)
  <2>1. PICK id \in Ids, n \in DOMAIN EdgeDefs : id = cur[q].id /\ n = cur[q].k
    BY <1>1, DefsTyped DEF InsertEdge, CallsOK, Call
  <2>2. cur[q].obj = born[id] /\ born[id] # Null /\ born' = born
    BY <1>1, <2>1 DEF InsertEdge, IInv, CallInv, Inserting
  <2> DEFINE row == EdgeRow(EdgeDefs[n], born[id], id)
  <2>3. \A r : r = row /\ Applicable(EdgeDefs[n], born[id]) => EdgeFromCanonical(r)'
    BY <2>2 DEF Applicable, EdgeFromCanonical, EdgeRow
  <2>4. \A s \in Shards : \A r \in edges'[s] :
          r \in edges[s] \/ (r = row /\ Applicable(EdgeDefs[n], born[id]))
    BY <1>1, <2>1, <2>2 DEF InsertEdge, StoresOK
  <2>5. indexes' = indexes
    BY <1>1 DEF InsertEdge
  <2> QED BY <1>b, <2>3, <2>4, <2>5 DEF DerivedFromCanonical
<1>2. CASE InsertIndexEntry(q)
  <2>1. PICK id \in Ids, n \in DOMAIN IndexDefs : id = cur[q].id /\ n = cur[q].k
    BY <1>2, DefsTyped DEF InsertIndexEntry, CallsOK, Call
  <2>2. cur[q].obj = born[id] /\ born[id] # Null /\ born' = born
    BY <1>2, <2>1 DEF InsertIndexEntry, IInv, CallInv, Inserting
  <2> DEFINE row == IndexRow(IndexDefs[n], born[id], id)
  <2>3. \A r : r = row /\ Applicable(IndexDefs[n], born[id]) => EntryFromCanonical(r)'
    BY <2>2 DEF Applicable, EntryFromCanonical, IndexRow
  <2>4. \A s \in Shards : \A r \in indexes'[s] :
          r \in indexes[s] \/ (r = row /\ Applicable(IndexDefs[n], born[id]))
    <3>1. PICK shard : shard = hash[q][row.value]
      OBVIOUS
    <3>2. indexes' = IF Applicable(IndexDefs[n], born[id])
                       THEN [indexes EXCEPT ![shard] = @ \cup {row}]
                       ELSE indexes
      BY <1>2, <2>1, <2>2, <3>1 DEF InsertIndexEntry
    <3> QED BY <3>2 DEF StoresOK
  <2>5. edges' = edges
    BY <1>2 DEF InsertIndexEntry
  <2> QED BY <1>b, <2>3, <2>4, <2>5 DEF DerivedFromCanonical
<1>3. CASE DeleteIndexEntry(q)
  <2>1. \A s \in Shards : edges'[s] = edges[s] /\ \A row \in indexes'[s] : row \in indexes[s]
    BY <1>3 DEF DeleteIndexEntry, DeleteEntry, StoresOK
  <2> QED BY <1>b, <2>1 DEF DerivedFromCanonical
<1>4. CASE \/ InsertRow(q) \/ BulkInsert(q) \/ UpdateRead(q) \/ DeleteRead(q) \/ EdgesDone(q)
           \/ InsertReturn(q) \/ UpdateWrite(q) \/ DeleteRow(q) \/ DeleteReturn(q) \/ Fault(q)
  <2>1. UNCHANGED <<edges, indexes>>
    BY <1>4 DEF InsertRow, BulkInsert, UpdateRead, DeleteRead, EdgesDone, InsertReturn,
                UpdateWrite, DeleteRow, DeleteReturn, Fault, StatementFails, ProcessRestarts,
                Abandon, stores
  <2> QED BY <1>b, <2>1 DEF DerivedFromCanonical
<1> QED BY <1>1, <1>2, <1>3, <1>4 DEF Action, Begin, Continue

(* No edge or index entry without an object it was derived from.           *)
THEOREM DerivedFromCanonicalCorrect == Spec => []DerivedFromCanonical
<1>1. Init => DerivedFromCanonical
  BY DEF Init, DerivedFromCanonical
<1>2. TypeOK /\ IInv /\ DerivedFromCanonical /\ [Next]_vars => DerivedFromCanonical'
  <2> SUFFICES ASSUME TypeOK, IInv, DerivedFromCanonical, [Next]_vars
               PROVE  DerivedFromCanonical'
    OBVIOUS
  <2>1. CASE UNCHANGED vars
    BY <2>1 DEF vars, DerivedFromCanonical, EdgeFromCanonical, EntryFromCanonical
  <2> QED BY <2>1, DerivedNext DEF Next, Action
<1> QED BY <1>1, <1>2, Invariance, PTL DEF Spec

-----------------------------------------------------------------------------
(* Objects and edges stay on the shard their readers ask.                  *)
THEOREM PlacementCorrect == Spec => []Placement
<1>1. IInv => Placement
  BY DEF IInv
<1> QED BY <1>1, Invariance, PTL

(* An insert that returned has its edges for good, whatever other          *)
(* processes do to the object and whatever fails.                          *)
THEOREM EdgesCompleteCorrect == Spec => []EdgesComplete
<1>1. IInv => EdgesComplete
  BY DEF IInv
<1> QED BY <1>1, Invariance, PTL

(* An insert that returned has its index entries while its object lives,   *)
(* for any hash functions: the scan of gen_from_index cannot miss it.      *)
THEOREM IndexesCompleteCorrect == Spec => []IndexesComplete
<1>1. IInv => IndexesComplete
  BY DEF IInv
<1> QED BY <1>1, Invariance, PTL

(* No update in flight, and no insert, brings a deleted object back.       *)
THEOREM NoResurrectionCorrect == Spec => NoResurrection
<1>1. TypeOK /\ IInv /\ [Next]_vars
        => [\A id \in Ids : born[id] # Null /\ ~Live(id) => ~Live(id)']_vars
  <2> SUFFICES ASSUME TypeOK, IInv, NEW q \in Procs, Action(q),
                      NEW id \in Ids, born[id] # Null, ~Live(id)
               PROVE  ~Live(id)'
    BY DEF Next, Action
  <2> QED BY StepFactsHold DEF StepFacts, DeadStays
<1> QED BY <1>1, Invariance, PTL DEF Spec, NoResurrection

-----------------------------------------------------------------------------
(* Refinement: the sharded tables implement one store.                     *)

(* Both modules mean the same objects.                                     *)
LEMMA StoreObject == Store!Object = Object
  BY DEF Store!Object, Object

(* A step that leaves the rows and how far inserts got is a stutter.       *)
LEMMA StoreStutters ==
  ASSUME UNCHANGED objects, \A id \in Ids : how'[id] = "unborn" <=> how[id] = "unborn"
  PROVE  UNCHANGED Store!vars
<1>1. \A id \in Ids : Row(id)' = Row(id)
  BY DEF Row
<1>2. Unborn' = Unborn
  BY DEF Unborn
<1> QED BY <1>1, <1>2 DEF Store!vars

(* The rows of all ids form a store of the abstract module.                *)
LEMMA StoreTyped == TypeOK => [id \in Ids |-> Row(id)] \in [Ids -> Object \cup {Null}]
  BY ShardOfId DEF TypeOK, StoresOK, Row

(* Empty tables are the empty abstract store.                              *)
LEMMA StoreInit == Init => Store!Init
<1> SUFFICES ASSUME Init PROVE Store!Init
  OBVIOUS
<1>1. \A id \in Ids : Row(id) = Null
  BY ShardOfId DEF Init, Row
<1>2. Ids \ Unborn = {}
  BY DEF Init, Unborn
<1> QED BY <1>1, <1>2 DEF Store!Init

(* Every step is a step of the abstract store, or none.                    *)
LEMMA StoreStep ==
  ASSUME TypeOK, TypeOK', IInv, [Next]_vars
  PROVE  [Store!Next]_(Store!vars)
<1>1. CASE UNCHANGED vars
  BY <1>1, StoreStutters DEF vars
<1>2. ASSUME NEW q \in Procs, Action(q) PROVE [Store!Next]_(Store!vars)
  <2> DEFINE store == [id \in Ids |-> Row(id)]
  <2>a. store' \in [Ids -> Object \cup {Null}]
    BY ShardOfId DEF TypeOK, StoresOK, Row
  <2>b. HistoryInv
    BY DEF IInv
  <2>1. CASE InsertRow(q)
    <3>1. PICK id \in Unborn, obj \in InsertObjs :
             /\ objects' = [objects EXCEPT ![ShardOf(id)][id] = obj]
             /\ how' = [how EXCEPT ![id] = "open"]
      BY <2>1 DEF InsertRow
    <3>2. id \in Ids /\ obj \in Object
      BY ConstantsAssumption DEF Unborn
    <3>3. Row(id)' = obj /\ \A other \in Ids \ {id} : Row(other)' = Row(other)
      BY <3>1, <3>2, RowWritten
    <3>4. Ids \ Unborn' = (Ids \ Unborn) \cup {id} /\ {id} \cap (Ids \ Unborn) = {}
      BY <3>1, <3>2 DEF Unborn, TypeOK, HistoryOK
    <3>5. Store!Create({id})
      BY <2>a, <3>2, <3>3, <3>4, StoreObject DEF Store!Create, Store!Changes
    <3> QED BY <3>2, <3>5 DEF Store!Next
  <2>2. CASE BulkInsert(q)
    <3>1. PICK S \in SUBSET Unborn, type \in Types :
          /\ \E new \in [S -> {obj \in InsertObjs : obj.type = type}] :
               /\ objects' = [objects EXCEPT ![0] =
                               [id \in Ids |-> IF id \in S THEN new[id] ELSE @[id]]]
               /\ born' = [id \in Ids |-> IF id \in S THEN new[id] ELSE born[id]]
          /\ how' = [id \in Ids |-> IF id \in S THEN "bulk" ELSE how[id]]
      BY <2>2 DEF BulkInsert
    <3>2. PICK new \in [S -> {obj \in InsertObjs : obj.type = type}] :
               objects' = [objects EXCEPT ![0] =
                             [id \in Ids |-> IF id \in S THEN new[id] ELSE @[id]]]
      BY <3>1
    <3>3. NumShards = 1 /\ 0 \in Shards /\ S \in SUBSET Ids
      BY <2>2 DEF BulkInsert, Unborn
    <3>4. \A id \in Ids : ShardOf(id) = 0
      BY <3>3, ShardOfId
    <3>5. /\ \A id \in S : Row(id)' = new[id] /\ new[id] \in Object
          /\ \A id \in Ids \ S : Row(id)' = Row(id)
      BY <3>2, <3>3, <3>4, ConstantsAssumption DEF Row, TypeOK, StoresOK
    <3>6. Ids \ Unborn' = (Ids \ Unborn) \cup S /\ S \cap (Ids \ Unborn) = {}
      BY <3>1, <3>3 DEF Unborn
    <3>7. Store!Create(S)
      BY <2>a, <3>3, <3>5, <3>6, StoreObject DEF Store!Create, Store!Changes
    <3> QED BY <3>3, <3>7 DEF Store!Next
  <2>3. CASE UpdateWrite(q)
    <3>1. PICK id \in Ids : id = cur[q].id
      BY <2>3 DEF UpdateWrite, TypeOK, CallsOK
    <3>2. Row(id) \in Object \cup {Null} /\ cur[q].obj \in Object /\ cur[q].patch \in Data
      BY <2>3, <3>1, ShardOfId DEF UpdateWrite, Row, TypeOK, StoresOK, CallsOK
    <3>3. PICK new \in Object \cup {Null} : new = ReplaceRow(Row(id), cur[q].obj, cur[q].patch)
      BY <3>2, ReplaceRowTyped
    <3>4. objects' = [objects EXCEPT ![ShardOf(id)][id] = new]
      BY <2>3, <3>1, <3>3 DEF UpdateWrite, Row
    <3>5. Row(id)' = new /\ \A other \in Ids \ {id} : Row(other)' = Row(other)
      BY <3>3, <3>4, RowWritten
    <3>6. Unborn' = Unborn
      BY <2>3 DEF UpdateWrite, Unborn
    <3>7. CASE Row(id) = Null
      <4>1. new = Null
        BY <3>2, <3>3, <3>7, ReplaceRowTyped
      <4> QED BY <3>5, <3>6, <3>7, <4>1 DEF Store!vars
    <3>8. CASE Row(id) # Null
      <4>1. new \in Object /\ new.type = Row(id).type
        BY <3>2, <3>3, <3>8, ReplaceRowTyped
      <4>2. Store!Replace(id)
        BY <2>a, <3>5, <3>6, <3>8, <4>1, StoreObject DEF Store!Replace, Store!Changes
      <4> QED BY <4>2 DEF Store!Next
    <3> QED BY <3>7, <3>8
  <2>4. CASE DeleteRow(q)
    <3>1. PICK id \in Ids : id = cur[q].id
      BY <2>4 DEF DeleteRow, TypeOK, CallsOK
    <3>2. objects' = [objects EXCEPT ![ShardOf(id)][id] = Null]
      BY <2>4, <3>1 DEF DeleteRow
    <3>3. Row(id)' = Null /\ \A other \in Ids \ {id} : Row(other)' = Row(other)
      BY <3>2, RowWritten
    <3>4. Unborn' = Unborn
      BY <2>4 DEF DeleteRow, Unborn
    <3>5. CASE Row(id) = Null
      BY <3>3, <3>4, <3>5 DEF Store!vars
    <3>6. CASE Row(id) # Null
      <4>1. [i \in Ids |-> Row(i)'] = [[i \in Ids |-> Row(i)] EXCEPT ![id] = Null]
        BY <3>3
      <4>2. [i \in Ids |-> Row(i)][id] # Null
        BY <3>6
      <4>3. Store!Remove(id)
        BY <3>4, <4>1, <4>2 DEF Store!Remove
      <4> QED BY <4>3 DEF Store!Next
    <3> QED BY <3>5, <3>6
  <2>5. CASE InsertReturn(q) \/ Fault(q)
    <3>1. (cur[q].id \in Ids /\ how[cur[q].id] # "unborn") \/ ~Inserting(q)
      BY DEF IInv, CallInv, TypeOK, CallsOK, Inserting
    <3>2. \A id \in Ids : how'[id] = "unborn" <=> how[id] = "unborn"
      BY <2>5, <3>1 DEF InsertReturn, Fault, StatementFails, ProcessRestarts, Abandon,
                        Inserting, TypeOK, HistoryOK
    <3>3. UNCHANGED objects
      BY <2>5 DEF InsertReturn, Fault, StatementFails, ProcessRestarts, Abandon, stores
    <3> QED BY <3>2, <3>3, StoreStutters
  <2>6. CASE \/ UpdateRead(q) \/ DeleteRead(q) \/ InsertEdge(q) \/ EdgesDone(q)
             \/ InsertIndexEntry(q) \/ DeleteIndexEntry(q) \/ DeleteReturn(q)
    <3>1. UNCHANGED <<objects, how>>
      BY <2>6 DEF UpdateRead, DeleteRead, InsertEdge, EdgesDone, InsertIndexEntry,
                  DeleteIndexEntry, DeleteReturn, stores
    <3> QED BY <3>1, StoreStutters
  <2> QED BY <1>2, <2>1, <2>2, <2>3, <2>4, <2>5, <2>6 DEF Action, Begin, Continue
<1> QED BY <1>1, <1>2 DEF Next, Action

(* Kvetch implements ObjectStore: whatever the shards, the processes and   *)
(* the faults, its objects are those of one store in which an id is used   *)
(* once, a type is fixed, and a deleted object stays deleted.              *)
THEOREM KvetchImplementsStore == Spec => ImplementsStore
<1>1. TypeOK /\ IInv /\ TypeOK' /\ [Next]_vars => [Store!Next]_(Store!vars)
  BY StoreStep
<1> QED BY <1>1, StoreInit, Invariance, PTL DEF Spec, ImplementsStore, Store!Spec
=============================================================================
