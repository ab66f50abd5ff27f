------------------------------- MODULE Kvetch -------------------------------
(***************************************************************************)
(* graphscale/kvetch/kvetch.py over MySQL shards (dbshard.py).             *)
(*                                                                         *)
(* Several server processes share the shards.  Every shard call opens an   *)
(* autocommit connection and runs one SQL statement, so a Kvetch call is a *)
(* sequence of atomic statements with no transaction around them.  The     *)
(* shard coroutines never suspend: inside one process a mutation runs from *)
(* its first statement to its last, and only other processes interleave.   *)
(*                                                                         *)
(* An exception from a statement, or the death of the process, abandons    *)
(* the rest of the call (StatementFails, ProcessRestarts).                 *)
(***************************************************************************)
EXTENDS Naturals, Sequences, FiniteSets

CONSTANTS
  Procs,        \* server processes
  Ids,          \* UUIDs, as the numbers obj_id.int
  NumShards,
  Types, Attrs, Values,
  Absent,       \* the attribute is not a key of the data
  Falsy,        \* the attribute is there with a falsy value (None, '', 0)
  Null,         \* no object
  EdgeDefs,     \* schema.edges, in order
  IndexDefs,    \* schema.indexes, in order
  Hashes,       \* the hash functions a process may come up with
  InsertObjs,   \* the (type, data) pairs callers insert
  Patches,      \* the data callers update with
  Calls,        \* the mutations callers use
  MaxBulk,      \* bound: objects in one bulk insert
  MaxFaults     \* bound: failed statements and restarts

Shards == 0 .. NumShards - 1
Data   == [Attrs -> Values \cup {Absent, Falsy}]
Object == [type : Types, data : Data]
Def    == [name : STRING, attr : Attrs, type : Types]

ASSUME ConstantsAssumption ==
  /\ NumShards \in Nat \ {0}
  /\ Ids \subseteq Nat
  /\ Ids \subseteq Values
  /\ Absent \notin Values
  /\ Falsy \notin Values
  /\ Null \notin Object
  /\ EdgeDefs \in Seq(Def)
  /\ IndexDefs \in Seq(Def)
  /\ Hashes \subseteq [Values -> Shards]
  /\ Hashes # {}
  /\ InsertObjs \subseteq Object
  /\ Patches \subseteq Data
  /\ MaxFaults \in Nat

\* Callers store UUIDs under the attributes of edge definitions.
ASSUME StoredIdsAssumption ==
  \A obj \in InsertObjs, j \in DOMAIN EdgeDefs :
    EdgeDefs[j].type = obj.type => obj.data[EdgeDefs[j].attr] \in Ids \cup {Absent, Falsy}

VARIABLES
  objects,   \* shard -> id -> row of kvetch_objects, or Null
  edges,     \* shard -> rows of kvetch_edges
  indexes,   \* shard -> rows of the index tables
  pc,        \* process -> the statement it is about to run, "idle" between calls
  cur,       \* process -> the locals of the call it is in
  hash,      \* process -> its hash()
  born,      \* history: id -> what it was inserted with
  how,       \* history: id -> how far its insert got
  faults
stores == <<objects, edges, indexes>>
vars   == <<objects, edges, indexes, pc, cur, hash, born, how, faults>>

Phases == {"idle", "edges", "indexes", "write", "row", "unindex"}

-----------------------------------------------------------------------------
(* Placement and the schema loops. *)

ShardOf(id) == id % NumShards

Row(id) == objects[ShardOf(id)][id]
Live(id) == Row(id) # Null

\* The schema loops skip a definition of another type, and one whose
\* attribute is missing or falsy.
ApplicableAnyType(d, obj) == obj.data[d.attr] \notin {Absent, Falsy}
Applicable(d, obj) == d.type = obj.type /\ obj.data[d.attr] \notin {Absent, Falsy}

EdgeRow(d, obj, id)  == [edge |-> d.name, from |-> obj.data[d.attr], to |-> id]
IndexRowSwapped(d, obj, id) == [index |-> d.name, value |-> id, target |-> obj.data[d.attr]]
IndexRow(d, obj, id) == [index |-> d.name, value |-> obj.data[d.attr], target |-> id]

\* An edge is stored where its from_id lives: gen_edges asks one shard.
EdgeShardOfTarget(row) == ShardOf(row.to)
EdgeShard(row) == ShardOf(row.from)

\* UPDATE kvetch_objects SET body ... WHERE obj_id: no row, no effect; the
\* type_id column is not written.
Merge(data, patch) == [a \in Attrs |-> IF patch[a] = Absent THEN data[a] ELSE patch[a]]
UpsertRow(row, old, patch) == [type |-> old.type, data |-> Merge(old.data, patch)]
ReplaceRow(row, old, patch) ==
  IF row = Null THEN Null ELSE [type |-> row.type, data |-> Merge(old.data, patch)]

\* DELETE FROM index WHERE value = .. AND target_id = ..
DeleteEveryTarget(rows, d, obj, id) ==
  {r \in rows : ~(r.index = d.name /\ r.value = obj.data[d.attr])}
DeleteEntry(rows, d, obj, id) == rows \ {IndexRow(d, obj, id)}

-----------------------------------------------------------------------------
(* Bookkeeping of the call a process is in. *)

Call == [id : Ids \cup {Null}, obj : Object \cup {Null},
         patch : Data \cup {Null}, k : Nat \ {0}]

NoCall == [id |-> Null, obj |-> Null, patch |-> Null, k |-> 1]

StartSecond(id, obj, patch) == [id |-> id, obj |-> obj, patch |-> patch, k |-> 2]
Start(id, obj, patch) == [id |-> id, obj |-> obj, patch |-> patch, k |-> 1]

Goto(p, phase) == pc' = [pc EXCEPT ![p] = phase]

Return(p) == /\ Goto(p, "idle")
             /\ cur' = [cur EXCEPT ![p] = NoCall]

AdvanceNever(p) == UNCHANGED <<cur, pc>>
Advance(p) == /\ cur' = [cur EXCEPT ![p].k = @ + 1]
              /\ UNCHANGED pc

Inserting(p) == pc[p] \in {"edges", "indexes"}

Init ==
  /\ objects = [s \in Shards |-> [id \in Ids |-> Null]]
  /\ edges = [s \in Shards |-> {}]
  /\ indexes = [s \in Shards |-> {}]
  /\ pc = [p \in Procs |-> "idle"]
  /\ cur = [p \in Procs |-> NoCall]
  /\ hash \in [Procs -> Hashes]
  /\ born = [id \in Ids |-> Null]
  /\ how = [id \in Ids |-> "unborn"]
  /\ faults = 0

-----------------------------------------------------------------------------
(* gen_insert_object: the row, then the edges, then the index entries. *)

Unborn == {id \in Ids : how[id] = "unborn"}

\* Callers can only store an id that was handed out before.
SourcesKnown(obj) == \A a \in Attrs : obj.data[a] \in Ids => obj.data[a] \notin Unborn

InsertRow(p) ==
  /\ "insert" \in Calls
  /\ pc[p] = "idle"
  /\ \E id \in Unborn, obj \in InsertObjs :
       /\ SourcesKnown(obj)
       /\ objects' = [objects EXCEPT ![ShardOf(id)][id] = obj]
       /\ cur' = [cur EXCEPT ![p] = Start(id, obj, Null)]
       /\ born' = [born EXCEPT ![id] = obj]
       /\ how' = [how EXCEPT ![id] = "open"]
  /\ Goto(p, "edges")
  /\ UNCHANGED <<edges, indexes, hash, faults>>

InsertEdge(p) ==
  /\ pc[p] = "edges"
  /\ cur[p].k <= Len(EdgeDefs)
  /\ LET d == EdgeDefs[cur[p].k]
         row == EdgeRow(d, cur[p].obj, cur[p].id)
     IN  edges' = IF Applicable(d, cur[p].obj)
                    THEN [edges EXCEPT ![EdgeShard(row)] = @ \cup {row}]
                    ELSE edges
  /\ Advance(p)
  /\ UNCHANGED <<objects, indexes, hash, born, how, faults>>

EdgesDone(p) ==
  /\ pc[p] = "edges"
  /\ cur[p].k > Len(EdgeDefs)
  /\ Goto(p, "indexes")
  /\ cur' = [cur EXCEPT ![p].k = 1]
  /\ UNCHANGED <<stores, hash, born, how, faults>>

InsertIndexEntry(p) ==
  /\ pc[p] = "indexes"
  /\ cur[p].k <= Len(IndexDefs)
  /\ LET d == IndexDefs[cur[p].k]
         row == IndexRow(d, cur[p].obj, cur[p].id)
     IN  indexes' = IF Applicable(d, cur[p].obj)
                      THEN [indexes EXCEPT ![hash[p][row.value]] = @ \cup {row}]
                      ELSE indexes
  /\ Advance(p)
  /\ UNCHANGED <<objects, edges, hash, born, how, faults>>

InsertReturn(p) ==
  /\ pc[p] = "indexes"
  /\ cur[p].k > Len(IndexDefs)
  /\ how' = [how EXCEPT ![cur[p].id] = "done"]
  /\ Return(p)
  /\ UNCHANGED <<stores, hash, born, faults>>

\* gen_insert_objects raises with several shards; with one it is a single
\* multi-row INSERT, and no edge or index entry is made.
BulkInsert(p) ==
  /\ "bulk" \in Calls
  /\ pc[p] = "idle"
  /\ NumShards = 1
  /\ \E S \in SUBSET Unborn, type \in Types :
       /\ S # {}
       /\ Cardinality(S) <= MaxBulk
       /\ \E new \in [S -> {obj \in InsertObjs : obj.type = type}] :
            /\ objects' = [objects EXCEPT ![0] =
                             [id \in Ids |-> IF id \in S THEN new[id] ELSE @[id]]]
            /\ born' = [id \in Ids |-> IF id \in S THEN new[id] ELSE born[id]]
       /\ how' = [id \in Ids |-> IF id \in S THEN "bulk" ELSE how[id]]
  /\ UNCHANGED <<edges, indexes, pc, cur, hash, faults>>

-----------------------------------------------------------------------------
(* gen_update_object: SELECT, merge in the process, UPDATE.  On an object   *)
(* that does not exist the merge raises before anything is written.        *)

UpdateRead(p) ==
  /\ "update" \in Calls
  /\ pc[p] = "idle"
  /\ \E id \in Ids, patch \in Patches :
       /\ Live(id)
       /\ cur' = [cur EXCEPT ![p] = Start(id, Row(id), patch)]
  /\ Goto(p, "write")
  /\ UNCHANGED <<stores, hash, born, how, faults>>

UpdateWrite(p) ==
  /\ pc[p] = "write"
  /\ LET id == cur[p].id
     IN  objects' = [objects EXCEPT ![ShardOf(id)][id] =
                       ReplaceRow(@, cur[p].obj, cur[p].patch)]
  /\ Return(p)
  /\ UNCHANGED <<edges, indexes, hash, born, how, faults>>

-----------------------------------------------------------------------------
(* gen_delete_object: SELECT, DELETE of the row, then the index entries of  *)
(* what was read, on the shard of the object's id; edges stay.             *)

DeleteRead(p) ==
  /\ "delete" \in Calls
  /\ pc[p] = "idle"
  /\ \E id \in Ids :
       /\ Live(id)
       /\ cur' = [cur EXCEPT ![p] = Start(id, Row(id), Null)]
  /\ Goto(p, "row")
  /\ UNCHANGED <<stores, hash, born, how, faults>>

DeleteRow(p) ==
  /\ pc[p] = "row"
  /\ objects' = [objects EXCEPT ![ShardOf(cur[p].id)][cur[p].id] = Null]
  /\ Goto(p, "unindex")
  /\ UNCHANGED <<edges, indexes, cur, hash, born, how, faults>>

DeleteIndexEntry(p) ==
  /\ pc[p] = "unindex"
  /\ cur[p].k <= Len(IndexDefs)
  /\ LET d == IndexDefs[cur[p].k]
     IN  indexes' = IF Applicable(d, cur[p].obj)
                      THEN [indexes EXCEPT ![ShardOf(cur[p].id)] =
                              DeleteEntry(@, d, cur[p].obj, cur[p].id)]
                      ELSE indexes
  /\ Advance(p)
  /\ UNCHANGED <<objects, edges, hash, born, how, faults>>

DeleteReturn(p) ==
  /\ pc[p] = "unindex"
  /\ cur[p].k > Len(IndexDefs)
  /\ Return(p)
  /\ UNCHANGED <<stores, hash, born, how, faults>>

-----------------------------------------------------------------------------
(* Faults: the call in progress stops between two statements. *)

Abandon(p) ==
  /\ how' = IF Inserting(p) THEN [how EXCEPT ![cur[p].id] = "cut"] ELSE how
  /\ Return(p)
  /\ faults < MaxFaults
  /\ faults' = faults + 1
  /\ UNCHANGED <<stores, born>>

StatementFails(p) == /\ pc[p] # "idle"
                     /\ Abandon(p)
                     /\ UNCHANGED hash

\* hash() of a str is seeded anew in every Python process.
ProcessRestarts(p) == /\ Abandon(p)
                      /\ \E h \in Hashes : hash' = [hash EXCEPT ![p] = h]

-----------------------------------------------------------------------------
Begin(p) == InsertRow(p) \/ BulkInsert(p) \/ UpdateRead(p) \/ DeleteRead(p)

\* The statements a process runs once it is in a call.
Continue(p) == \/ InsertEdge(p) \/ EdgesDone(p) \/ InsertIndexEntry(p) \/ InsertReturn(p)
               \/ UpdateWrite(p)
               \/ DeleteRow(p) \/ DeleteIndexEntry(p) \/ DeleteReturn(p)

Fault(p) == StatementFails(p) \/ ProcessRestarts(p)

Next == \E p \in Procs : Begin(p) \/ Continue(p) \/ Fault(p)

Spec == Init /\ [][Next]_vars

\* A process in a call goes on with it: MySQL answers every statement.
FairSpec == Spec /\ \A p \in Procs : WF_vars(Continue(p))

-----------------------------------------------------------------------------
(* Properties.                                                             *)

StoresOK ==
  /\ objects \in [Shards -> [Ids -> Object \cup {Null}]]
  /\ edges \in [Shards -> SUBSET [edge : STRING, from : Values, to : Ids]]
  /\ indexes \in [Shards -> SUBSET [index : STRING, value : Values, target : Ids]]

\* A process in a call holds an id, a row, and for an update the patch.
CallsOK ==
  /\ pc \in [Procs -> Phases]
  /\ cur \in [Procs -> Call]
  /\ \A p \in Procs : /\ pc[p] # "idle" => cur[p].id \in Ids /\ cur[p].obj \in Object
                      /\ pc[p] = "write" => cur[p].patch \in Data

HistoryOK ==
  /\ hash \in [Procs -> Hashes]
  /\ born \in [Ids -> Object \cup {Null}]
  /\ how \in [Ids -> {"unborn", "open", "done", "cut", "bulk"}]
  /\ faults \in Nat

\* The rows of every table have the columns' types, every process in a call
\* holds the locals its next statement needs, and so do the histories.
TypeOK == StoresOK /\ CallsOK /\ HistoryOK

\* The j-th definition's edge or index entry for object id is stored.
HasEdge(id, j) ==
  LET row == EdgeRow(EdgeDefs[j], born[id], id)
  IN  Applicable(EdgeDefs[j], born[id]) => row \in edges[ShardOf(row.from)]
HasEntry(id, j) ==
  Applicable(IndexDefs[j], born[id]) =>
    \E s \in Shards : IndexRow(IndexDefs[j], born[id], id) \in indexes[s]

HasEdges(id) == \A j \in DOMAIN EdgeDefs : HasEdge(id, j)
HasIndexEntries(id) == \A j \in DOMAIN IndexDefs : HasEntry(id, j)

\* A row is only ever stored where get_shard_from_obj_id looks for it: the
\* object on its own shard, the edge on the shard of its source.
Placement ==
  /\ \A s \in Shards, id \in Ids : objects[s][id] # Null => s = ShardOf(id)
  /\ \A s \in Shards : \A row \in edges[s] : row.from \in Ids /\ s = ShardOf(row.from)

\* Derived rows come from canonical data: every edge and index entry was
\* written after its object, for a definition of the object's own type, with
\* the attribute the object was inserted with (never a falsy one).
EdgeFromCanonical(row) ==
  \E j \in DOMAIN EdgeDefs : /\ born[row.to] # Null
                             /\ EdgeDefs[j].type = born[row.to].type
                             /\ row = EdgeRow(EdgeDefs[j], born[row.to], row.to)
                             /\ row.from # Falsy
EntryFromCanonical(row) ==
  \E j \in DOMAIN IndexDefs : /\ born[row.target] # Null
                              /\ IndexDefs[j].type = born[row.target].type
                              /\ row = IndexRow(IndexDefs[j], born[row.target], row.target)
                              /\ row.value # Falsy
DerivedFromCanonical ==
  \A s \in Shards : /\ \A row \in edges[s] : EdgeFromCanonical(row)
                    /\ \A row \in indexes[s] : EntryFromCanonical(row)

\* An insert that returned has left every edge of its object, and no later
\* update, delete, fault or other process takes one away.
EdgesComplete == \A id \in Ids : how[id] = "done" => HasEdges(id)

\* An insert that returned has left every index entry of its object on some
\* shard, and they stay as long as the object does: deletes of other
\* objects, or a delete racing the insert, never take them.
IndexesComplete == \A id \in Ids : how[id] = "done" /\ Live(id) => HasIndexEntries(id)

\* A deleted object stays deleted: an update that read it before the delete
\* and writes after it does not bring it back, and no insert reuses its id.
NoResurrection ==
  [][\A id \in Ids : born[id] # Null /\ ~Live(id) => ~Live(id)']_vars

\* What each phase of a call has established: the loops of an insert have
\* written the rows of the definitions they passed (the entries as long as the
\* object is there), and a delete unindexes only what is gone.
CallInv(p) ==
  LET id == cur[p].id IN
  /\ pc[p] # "idle" => born[id] # Null
  /\ Inserting(p) => how[id] = "open" /\ cur[p].obj = born[id]
  /\ pc[p] = "edges" => \A j \in DOMAIN EdgeDefs : j < cur[p].k => HasEdge(id, j)
  /\ pc[p] = "indexes" =>
       /\ HasEdges(id)
       /\ Live(id) => \A j \in DOMAIN IndexDefs : j < cur[p].k => HasEntry(id, j)
  /\ pc[p] = "unindex" => ~Live(id)

\* The history variables follow the store.
HistoryInv ==
  /\ \A id \in Ids : how[id] = "unborn" <=> born[id] = Null
  /\ \A id \in Ids : born[id] # Null => born[id] \in InsertObjs
  /\ \A id \in Ids : Live(id) => born[id] # Null

\* An id is inserted by one process only.
OneInserter ==
  \A p, q \in Procs : Inserting(p) /\ Inserting(q) /\ cur[p].id = cur[q].id => p = q

\* The inductive invariant behind Placement, EdgesComplete, IndexesComplete.
IInv == /\ Placement
        /\ HistoryInv
        /\ OneInserter
        /\ \A p \in Procs : CallInv(p)
        /\ EdgesComplete
        /\ IndexesComplete

\* Objects behave as one unsharded store with ids used once and types fixed.
Store == INSTANCE ObjectStore WITH store <- [id \in Ids |-> Row(id)],
                                   used <- Ids \ Unborn
ImplementsStore == Store!Spec

\* Every insert under way settles: its object gets all its edges and index
\* entries, unless a fault cuts the insert or the object is deleted.
InsertSettles ==
  \A id \in Ids :
    how[id] = "open" ~> \/ how[id] = "cut"
                        \/ how[id] = "done" /\ HasEdges(id) /\ (Live(id) => HasIndexEntries(id))

-----------------------------------------------------------------------------
(* What the documentation says and the code does not: see the findings. *)

\* An update changes only the keys of its patch, and not those another
\* update has written meanwhile.
UpdateKeepsOtherKeys ==
  [][\A p \in Procs, id \in Ids :
       UpdateWrite(p) /\ cur[p].id = id /\ Live(id) =>
         \A a \in Attrs : cur[p].patch[a] = Absent => Row(id)'.data[a] = Row(id).data[a]]_vars

\* Edges follow the canonical data: once no call is under way, the object at
\* the end of an edge exists and still stores the id of its source.
EdgesFollowCanonicalData ==
  (\A p \in Procs : pc[p] = "idle") =>
    \A s \in Shards : \A row \in edges[s] :
      /\ Live(row.to)
      /\ \E a \in Attrs : Row(row.to).data[a] = row.from

=============================================================================
