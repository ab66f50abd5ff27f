------------------------- MODULE KvetchDeletesProofs -------------------------
(* Proofs about KvetchDeletes, for any processes, shards, schema, inputs   *)
(* and faults, on top of what KvetchProofs proves of the mutations.        *)
EXTENDS KvetchDeletes, KvetchProofs

USE DEF Shards

(* The history variables watch Kvetch and do not disturb it.               *)
LEMMA WatchesOnly == [DNext]_dvars => [Next]_vars
  BY DEF DNext, Next, dvars, vars

(* Kvetch keeps its invariants under DSpec.                                *)
LEMMA DeletesKeepStore == DSpec => [](TypeOK /\ IInv /\ DerivedFromCanonical)
<1>1. DInit => Init
  BY DEF DInit
<1>2. Spec => []DerivedFromCanonical
  BY DerivedFromCanonicalCorrect
<1> QED BY <1>1, <1>2, WatchesOnly, Invariance, PTL DEF DSpec, Spec

-----------------------------------------------------------------------------
(* Once an insert is over it stays over.                                   *)
LEMMA OverStays ==
  ASSUME TypeOK, IInv, NEW q \in Procs, Action(q), NEW id \in Ids, InsertOver(id)
  PROVE  InsertOver(id)'
<1> USE DEF TypeOK, InsertOver
<1>1. CASE InsertRow(q)
  BY <1>1 DEF InsertRow, Unborn, HistoryOK
<1>2. CASE BulkInsert(q)
  BY <1>2 DEF BulkInsert, HistoryOK
<1>3. CASE InsertReturn(q)
  BY <1>3 DEF InsertReturn, HistoryOK
<1>4. CASE Fault(q)
  BY <1>4 DEF Fault, StatementFails, ProcessRestarts, Abandon, HistoryOK
<1>5. CASE \/ UpdateRead(q) \/ DeleteRead(q) \/ InsertEdge(q) \/ EdgesDone(q) \/ UpdateWrite(q)
           \/ InsertIndexEntry(q) \/ DeleteRow(q) \/ DeleteIndexEntry(q) \/ DeleteReturn(q)
  BY <1>5 DEF UpdateRead, DeleteRead, InsertEdge, EdgesDone, UpdateWrite, InsertIndexEntry,
              DeleteRow, DeleteIndexEntry, DeleteReturn
<1> QED BY <1>1, <1>2, <1>3, <1>4, <1>5 DEF Action, Begin, Continue

(* After that no process gives the object an entry.                        *)
LEMMA NoNewEntries ==
  ASSUME TypeOK, IInv, NEW q \in Procs, Action(q), NEW id \in Ids, InsertOver(id)
  PROVE  EntriesHere(id)' \subseteq EntriesHere(id)
<1> USE DEF TypeOK, EntriesHere
<1>a. ShardOf(id) \in Shards /\ ShardOf(id)' = ShardOf(id)
  BY ShardOfId DEF ShardOf
<1>1. CASE InsertIndexEntry(q)
  <2>1. cur[q].id # id
    BY <1>1 DEF InsertIndexEntry, IInv, CallInv, Inserting, InsertOver
  <2>2. PICK shard, row : /\ row.target = cur[q].id
                          /\ indexes' = indexes \/ indexes' = [indexes EXCEPT ![shard] = @ \cup {row}]
    <3>1. IndexRow(IndexDefs[cur[q].k], cur[q].obj, cur[q].id).target = cur[q].id
      BY DEF IndexRow
    <3> QED BY <1>1, <3>1 DEF InsertIndexEntry
  <2>3. indexes'[ShardOf(id)] \subseteq indexes[ShardOf(id)] \cup {row}
    BY <1>a, <2>2 DEF StoresOK
  <2> QED BY <1>a, <2>1, <2>2, <2>3
<1>2. CASE DeleteIndexEntry(q)
  <2>1. indexes'[ShardOf(id)] \subseteq indexes[ShardOf(id)]
    BY <1>2, <1>a DEF DeleteIndexEntry, DeleteEntry, StoresOK
  <2> QED BY <1>a, <2>1
<1>3. CASE ~(InsertIndexEntry(q) \/ DeleteIndexEntry(q))
  <2>1. indexes' = indexes
    BY <1>3 DEF Action, Begin, Continue, Fault, InsertRow, BulkInsert, UpdateRead, DeleteRead,
                InsertEdge, EdgesDone, InsertReturn, UpdateWrite, DeleteRow, DeleteReturn,
                StatementFails, ProcessRestarts, Abandon, stores
  <2> QED BY <1>a, <2>1
<1> QED BY <1>1, <1>2, <1>3

(* The entries of an object that is indexed as it was born are those its   *)
(* delete is about to remove.                                              *)
LEMMA EntriesToRemove ==
  ASSUME TypeOK, DerivedFromCanonical, NEW id \in Ids, NEW row \in EntriesHere(id),
         NEW obj, IndexedAsBorn(obj, id)
  PROVE  \E j \in DOMAIN IndexDefs : /\ j >= 1
                                     /\ Applicable(IndexDefs[j], obj)
                                     /\ row = IndexRow(IndexDefs[j], obj, id)
<1>a. row.target = id /\ ShardOf(id) \in Shards /\ row \in indexes[ShardOf(id)]
  BY ShardOfId DEF EntriesHere
<1>1. PICK j \in DOMAIN IndexDefs :
        /\ IndexDefs[j].type = born[id].type
        /\ row = IndexRow(IndexDefs[j], born[id], id)
        /\ row.value # Falsy
  BY <1>a DEF DerivedFromCanonical, EntryFromCanonical
<1>2. row.value \in Values
  BY <1>a DEF TypeOK, StoresOK
<1>3. row.value = born[id].data[IndexDefs[j].attr]
  BY <1>1 DEF IndexRow
<1>4. Applicable(IndexDefs[j], obj) /\ row = IndexRow(IndexDefs[j], obj, id)
  BY <1>1, <1>2, <1>3, ConstantsAssumption DEF IndexedAsBorn, Applicable, IndexRow
<1> QED BY <1>4, DefsTyped

-----------------------------------------------------------------------------
(* Another process's step leaves the loop of an undisturbed delete as far  *)
(* as it was.                                                              *)
LEMMA UnindexKept ==
  ASSUME TypeOK, IInv, NEW q \in Procs, Action(q), NEW p \in Procs,
         pc'[p] = pc[p], cur'[p] = cur[p], undisturbed'[p] = undisturbed[p], UnindexInv(p)
  PROVE  UnindexInv(p)'
<1>1. ASSUME pc[p] = "unindex", undisturbed[p]
      PROVE  /\ InsertOver(cur[p].id)'
             /\ \A row \in EntriesHere(cur[p].id)' : ToUnindex(p, row)'
  <2>1. PICK id \in Ids : id = cur[p].id
    BY <1>1 DEF TypeOK, CallsOK
  <2>2. InsertOver(id) /\ \A row \in EntriesHere(id) : ToUnindex(p, row)
    BY <1>1, <2>1 DEF UnindexInv
  <2>3. InsertOver(id)' /\ EntriesHere(id)' \subseteq EntriesHere(id)
    BY <2>2, OverStays, NoNewEntries
  <2>4. EntriesHere(cur[p].id)' = EntriesHere(id)'
    BY <2>1 DEF EntriesHere, ShardOf
  <2>5. \A row : ToUnindex(p, row)' = ToUnindex(p, row)
    BY DEF ToUnindex
  <2> QED BY <2>1, <2>2, <2>3, <2>4, <2>5 DEF InsertOver
<1> QED BY <1>1 DEF UnindexInv

(* The step of a process leaves its own delete with nothing to remove but  *)
(* what is ahead of its loop.                                              *)
LEMMA UnindexActs ==
  ASSUME TypeOK, IInv, DerivedFromCanonical, NEW q \in Procs, Action(q), Note(q),
         undisturbed \in [Procs -> BOOLEAN], UnindexInv(q)
  PROVE  UnindexInv(q)'
<1> USE DEF TypeOK
<1>a. /\ cur[q] \in Call
      /\ pc[q] # "idle" => cur[q].id \in Ids /\ cur[q].obj \in Object
  BY DEF CallsOK
<1>1. CASE DeleteRead(q)
  <2>1. pc'[q] = "row" /\ cur'[q].k = 1
    BY <1>1 DEF DeleteRead, Goto, Start, CallsOK
  <2> QED BY <2>1 DEF UnindexInv
<1>2. CASE DeleteRow(q)
  <2>1. PICK id \in Ids : id = cur[q].id
    BY <1>2, <1>a DEF DeleteRow
  <2>2. /\ pc'[q] = "unindex" /\ cur' = cur /\ born' = born /\ how' = how /\ indexes' = indexes
        /\ cur[q].k = 1
        /\ undisturbed'[q] <=> InsertOver(id) /\ IndexedAsBorn(cur[q].obj, id)
    BY <1>2, <2>1 DEF DeleteRow, Goto, CallsOK, UnindexInv, Note
  <2>3. EntriesHere(id)' = EntriesHere(id) /\ InsertOver(id)' = InsertOver(id)
    BY <2>2 DEF EntriesHere, ShardOf, InsertOver
  <2>4. ASSUME IndexedAsBorn(cur[q].obj, id), NEW row \in EntriesHere(id)
        PROVE  ToUnindex(q, row)'
    <3>1. \E j \in DOMAIN IndexDefs : /\ j >= 1 /\ Applicable(IndexDefs[j], cur[q].obj)
                                      /\ row = IndexRow(IndexDefs[j], cur[q].obj, id)
      BY <2>4, EntriesToRemove
    <3> QED BY <2>1, <2>2, <3>1 DEF ToUnindex
  <2>5. EntriesHere(cur[q].id)' = EntriesHere(id) /\ InsertOver(cur[q].id)' = InsertOver(id)
    BY <2>1, <2>2, <2>3 DEF EntriesHere, ShardOf, InsertOver
  <2> QED BY <2>2, <2>4, <2>5 DEF UnindexInv
<1>3. CASE DeleteIndexEntry(q)
  <2>1. PICK id \in Ids, k \in DOMAIN IndexDefs : id = cur[q].id /\ k = cur[q].k
    BY <1>3, <1>a, DefsTyped DEF DeleteIndexEntry, Call
  <2>2. /\ pc' = pc /\ pc[q] = "unindex" /\ how' = how /\ undisturbed' = undisturbed
        /\ cur'[q].id = id /\ cur'[q].obj = cur[q].obj /\ cur'[q].k = k + 1 /\ k \in Nat
    <3>1. ~DeleteRow(q)
      BY <1>3 DEF DeleteIndexEntry, DeleteRow
    <3> QED BY <1>3, <1>a, <2>1, <3>1, DefsTyped
            DEF DeleteIndexEntry, Advance, CallsOK, Call, Note
  <2> DEFINE gone == IndexRow(IndexDefs[k], cur[q].obj, id)
  <2>3. /\ EntriesHere(id)' \subseteq EntriesHere(id)
        /\ Applicable(IndexDefs[k], cur[q].obj) => gone \notin EntriesHere(id)'
    <3>1. ShardOf(id) \in Shards /\ ShardOf(id)' = ShardOf(id)
      BY ShardOfId DEF ShardOf
    <3>2. /\ indexes'[ShardOf(id)] \subseteq indexes[ShardOf(id)]
          /\ Applicable(IndexDefs[k], cur[q].obj) => gone \notin indexes'[ShardOf(id)]
      BY <1>3, <2>1, <3>1 DEF DeleteIndexEntry, DeleteEntry, StoresOK
    <3> QED BY <3>1, <3>2 DEF EntriesHere
  <2>4. ASSUME undisturbed[q], NEW row \in EntriesHere(id)'
        PROVE  ToUnindex(q, row)'
    <3>1. row \in EntriesHere(id)
      BY <2>3, <2>4
    <3>2. ToUnindex(q, row)
      BY <2>1, <2>2, <2>4, <3>1 DEF UnindexInv
    <3>3. PICK j \in DOMAIN IndexDefs : /\ j >= k /\ Applicable(IndexDefs[j], cur[q].obj)
                                        /\ row = IndexRow(IndexDefs[j], cur[q].obj, id)
      BY <2>1, <3>2 DEF ToUnindex
    <3>4. j # k
      BY <2>3, <2>4, <3>3
    <3>5. j >= k + 1
      BY <3>3, <3>4, DefsTyped
    <3> QED BY <2>2, <3>3, <3>5 DEF ToUnindex
  <2>5. EntriesHere(cur[q].id)' = EntriesHere(id)' /\ InsertOver(cur[q].id)' = InsertOver(id)
    BY <2>2 DEF EntriesHere, ShardOf, InsertOver
  <2> QED BY <2>1, <2>2, <2>4, <2>5 DEF UnindexInv
<1>4. CASE ~(DeleteRead(q) \/ DeleteRow(q) \/ DeleteIndexEntry(q))
  <2>1. pc'[q] \notin {"row", "unindex"}
    BY <1>4 DEF Action, Begin, Continue, Fault, InsertRow, BulkInsert, UpdateRead, InsertEdge,
                EdgesDone, InsertIndexEntry, InsertReturn, UpdateWrite, DeleteReturn,
                StatementFails, ProcessRestarts, Abandon, Return, Goto, Advance, CallsOK
  <2> QED BY <2>1 DEF UnindexInv
<1> QED BY <1>1, <1>2, <1>3, <1>4

(* A loop that is over leaves nothing, and nothing comes back.             *)
LEMMA CleanedKept ==
  ASSUME TypeOK, IInv, NEW q \in Procs, Action(q), Note(q), DeletesInv
  PROVE  cleaned' \subseteq {id \in Ids : InsertOver(id)'} /\ CleanDeletes'
<1>1. ASSUME NEW id \in cleaned'
      PROVE  id \in Ids /\ InsertOver(id) /\ EntriesHere(id) = {}
  <2>1. CASE id \in cleaned
    BY <2>1 DEF DeletesInv, CleanDeletes
  <2>2. CASE id \notin cleaned
    <3>1. DeleteReturn(q) /\ undisturbed[q] /\ id = cur[q].id
      BY <1>1, <2>2 DEF Note
    <3>2. pc[q] = "unindex" /\ cur[q].k > Len(IndexDefs) /\ cur[q].k \in Nat /\ id \in Ids
      BY <3>1 DEF DeleteReturn, TypeOK, CallsOK, Call
    <3>3. InsertOver(id) /\ \A row \in EntriesHere(id) : ToUnindex(q, row)
      BY <3>1, <3>2 DEF DeletesInv, UnindexInv
    <3>4. \A j \in DOMAIN IndexDefs : ~(j >= cur[q].k)
      BY <3>2, DefsTyped
    <3> QED BY <3>2, <3>3, <3>4 DEF ToUnindex
  <2> QED BY <2>1, <2>2
<1>2. ASSUME NEW id \in cleaned'
      PROVE  id \in Ids /\ InsertOver(id)' /\ EntriesHere(id)' = {}
  BY <1>1, OverStays, NoNewEntries
<1> QED BY <1>2 DEF CleanDeletes

(* Every step of every process keeps the invariant.                        *)
LEMMA DeletesInvNext ==
  ASSUME TypeOK, IInv, DerivedFromCanonical, DeletesInv, [DNext]_dvars
  PROVE  DeletesInv'
<1>1. CASE UNCHANGED dvars
  BY <1>1 DEF dvars, vars, DeletesInv, CleanDeletes, UnindexInv, EntriesHere, InsertOver,
              ToUnindex, ShardOf
<1>2. ASSUME NEW q \in Procs, Action(q), Note(q) PROVE DeletesInv'
  <2>1. /\ undisturbed' \in [Procs -> BOOLEAN]
        /\ \A p \in Procs \ {q} : undisturbed'[p] = undisturbed[p]
    BY <1>2 DEF Note, DeletesInv, InsertOver, IndexedAsBorn
  <2>2. UnindexInv(q)'
    BY <1>2, UnindexActs DEF DeletesInv
  <2>3. ASSUME NEW p \in Procs \ {q} PROVE UnindexInv(p)'
    <3>1. pc'[p] = pc[p] /\ cur'[p] = cur[p]
      BY <1>2, StepFactsHold DEF StepFacts, OthersKept
    <3> QED BY <1>2, <2>1, <3>1, UnindexKept DEF DeletesInv
  <2> QED BY <1>2, <2>1, <2>2, <2>3, CleanedKept DEF DeletesInv
<1> QED BY <1>1, <1>2 DEF DNext, Action

(* A delete nothing disturbs leaves no index entry on the shard it cleans, *)
(* whatever the other processes do, fail at and restart; entries on other  *)
(* shards, and those of disturbed deletes, stay.                           *)
THEOREM CleanDeletesCorrect == DSpec => []CleanDeletes
<1>1. DInit => DeletesInv
  BY DEF DInit, Init, DeletesInv, UnindexInv, CleanDeletes
<1>2. TypeOK /\ IInv /\ DerivedFromCanonical /\ DeletesInv /\ [DNext]_dvars => DeletesInv'
  BY DeletesInvNext
<1>3. DeletesInv => CleanDeletes
  BY DEF DeletesInv
<1> QED BY <1>1, <1>2, <1>3, DeletesKeepStore, PTL DEF DSpec
=============================================================================
