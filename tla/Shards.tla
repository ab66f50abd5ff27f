------------------------------- MODULE Shards -------------------------------
(***************************************************************************)
(* The two implementations of KvetchShard, the in-memory one tests and the *)
(* scaffolded server use (memshard.py) and the MySQL one (dbshard.py),     *)
(* receive the same calls.  A client pages through objects or edges while  *)
(* the calls go on.                                                        *)
(*                                                                         *)
(* One edge definition and one index stand for all: each has its own dict, *)
(* its own edge_id or its own table.  What fails or interleaves below a    *)
(* call of the MySQL shard is in Kvetch.                                   *)
(***************************************************************************)
EXTENDS Naturals, Sequences, FiniteSets, FiniteSetsExt, Functions, Orders

CONSTANTS MaxId,     \* ids are 1..MaxId, in the order UUIDs compare in
          Types,
          Values,    \* what the index is over
          Datas,     \* what inserts and updates are given: attribute -> value
          Firsts,    \* page sizes; 0 stands for None and 0 alike: no limit
          Raises     \* a call that raised

ASSUME ShardsAssumption == MaxId \in Nat \ {0} /\ Firsts \subseteq Nat

Ids == 1..MaxId
NoId == 0            \* after=None
Afters == {NoId} \cup Ids
\* A dict with the items of another put into it.
Merge(old, patch) == [k \in DOMAIN old \cup DOMAIN patch |->
                        IF k \in DOMAIN patch THEN patch[k] ELSE old[k]]

VARIABLES mem,      \* [objects: id -> [type, data], edges: from -> to_ids, index: value -> target_ids]
          db,       \* [objects, edges: rows in the order of row_id, index: rows]
          pager,    \* the client's paging
          used,     \* history: the ids uuid4 gave out
          focus     \* which of the three the calls are about

vars == <<mem, db, pager, used, focus>>

\* The elements of a sequence at these positions, in their order.
AtPositions(seq, positions) ==
  LET sorted == Ascending(positions) IN [i \in DOMAIN sorted |-> seq[sorted[i]]]

----------------------------------------------------------------------------
(* memshard.py: reads *)

UpTo(seq, first) == IF first = 0 \/ first >= Len(seq) THEN seq ELSE SubSeq(seq, 1, first)
From(seq, index) == SubSeq(seq, index + 1, Len(seq))

\* An answer has one object, or none, for an id: the stored dict, `updated` and
\* all.
MemGenObjects(ids) == [id \in ids |-> {mem.objects[x] : x \in DOMAIN mem.objects \cap {id}}]

\* The ids of the page, the objects under them being those of gen_objects.
MemGenObjectsOfType(type, after, first) ==
  LET tuple_list ==
        Ascending({id \in DOMAIN mem.objects : mem.objects[id].type = type})
      index == Cardinality({i \in DOMAIN tuple_list : after >= tuple_list[i]})
  IN  UpTo(IF after = NoId THEN tuple_list ELSE From(tuple_list, index), first)

MemGenIndexEntries(value) == IF value \in DOMAIN mem.index THEN mem.index[value] ELSE <<>>

\* A mutant: enumerate counts from 1 already.
after_index_from_1(edges, after) ==
  LET hits == {i \in DOMAIN edges : edges[i] = after}
  IN  IF hits = {} THEN Len(edges) ELSE Min({Min(hits) + 1, Len(edges)})

get_after_index(edges, after) ==
  LET hits == {i \in DOMAIN edges : edges[i] = after}
  IN  IF hits = {} THEN Len(edges) ELSE Min(hits)

\* A source without edges has no list: slicing and iterating None raise.
MemGenEdges(from, after, first) ==
  IF from \notin DOMAIN mem.edges THEN Raises
  ELSE LET edges == mem.edges[from]
       IN  UpTo(IF after = NoId THEN edges ELSE From(edges, get_after_index(edges, after)), first)

----------------------------------------------------------------------------
(* dbshard.py: reads *)

\* SELECT ... WHERE obj_id in (...), whose parentheses MySQL does not take empty:
\* a row per id that is there, with what was put in its body and no `updated`,
\* over a dict of None for all of them.
DbGenObjects(ids) ==
  IF ids = {} THEN Raises
  ELSE LET rows == Restrict(db.objects, DOMAIN db.objects \cap ids)
       IN  [id \in ids |-> IF id \in DOMAIN rows THEN {rows[id]} ELSE {}]

\* A mutant: the page starts with the object it should start after.
objects_by_type_from(type, after, first) ==
  UpTo(Ascending({id \in DOMAIN db.objects : db.objects[id].type = type /\ id >= after}), first)

DbGenObjectsOfType(type, after, first) ==
  UpTo(Ascending({id \in DOMAIN db.objects : db.objects[id].type = type /\ id > after}), first)

\* row_id > (SELECT row_id ...): no row is greater than NULL.
RowId(from, to) == {row \in DOMAIN db.edges : db.edges[row] = <<from, to>>}
DbGenEdges(from, after, first) ==
  LET start == RowId(from, after)
      rows == {row \in DOMAIN db.edges : /\ db.edges[row][1] = from
                                         /\ after # NoId => \E last \in start : row > last}
  IN  UpTo(AtPositions([row \in DOMAIN db.edges |-> db.edges[row][2]], rows), first)

DbGenIndexEntries(value) == Ascending({target \in Ids : <<value, target>> \in db.index})

----------------------------------------------------------------------------
(* The calls of Kvetch *)

NoPager == [what |-> "none", shard |-> "mem", of |-> 0, first |-> 0, after |-> NoId,
            seen |-> <<>>, throughout |-> {}, done |-> FALSE]

\* What datetime.now() puts into a stored dict; the times are not told apart.
Stamp == [updated |-> 0]

Init ==
  /\ mem = [objects |-> <<>>, edges |-> <<>>, index |-> <<>>]
  /\ db = [objects |-> <<>>, edges |-> <<>>, index |-> {}]
  /\ pager = NoPager /\ used = {}
  /\ focus \in {"objects", "edges", "index"}

Put(d, k, v) == [x \in DOMAIN d \cup {k} |-> IF x = k THEN v ELSE d[x]]
Without(d, k) == [x \in DOMAIN d \ {k} |-> d[x]]

\* The dict of a new object: the stamp, and over it what is inserted.
Stamped(data) == Merge(Stamp, data)

\* gen_insert_objects; gen_insert_object is the case of one.
InsertObjects(ids, type, data) ==
  LET new == [id \in DOMAIN mem.objects \cup ids |->
                IF id \in ids THEN [type |-> type, data |-> Stamped(data)] ELSE mem.objects[id]]
      rows == [id \in DOMAIN db.objects \cup ids |->
                IF id \in ids THEN [type |-> type, data |-> data] ELSE db.objects[id]]
  IN  /\ ids \cap used = {}
      /\ used' = used \cup ids
      /\ mem' = [mem EXCEPT !.objects = new] /\ db' = [db EXCEPT !.objects = rows]
      /\ UNCHANGED <<pager, focus>>

\* A mutant: an update makes the object that is missing.
update_or_insert(id, patch) ==
  /\ mem' = [mem EXCEPT !.objects =
               Put(@, id, [type |-> CHOOSE type \in Types : TRUE, data |-> patch])]
  /\ UNCHANGED <<db, pager, used, focus>>

\* The stored dict is changed in place and stamped; the MySQL shard changes
\* what it read and writes it back.  For a missing object the one returns, and
\* the other raises: neither writes.
UpdateObject(id, patch) ==
  /\ mem' = IF id \in DOMAIN mem.objects
            THEN [mem EXCEPT !.objects[id].data = Merge(Merge(@, patch), Stamp)] ELSE mem
  /\ db' = IF id \in DOMAIN db.objects
           THEN [db EXCEPT !.objects[id].data = Merge(@, patch)] ELSE db
  /\ UNCHANGED <<pager, used, focus>>

DeleteObject(id) ==
  /\ mem' = [mem EXCEPT !.objects = Without(@, id)]
  /\ db' = [db EXCEPT !.objects = Without(@, id)]
  /\ pager' = IF pager.what = "objects" THEN [pager EXCEPT !.throughout = @ \ {id}] ELSE pager
  /\ UNCHANGED <<used, focus>>

\* An object has its edge inserted once, when it is.
InsertEdge(from, to) ==
  /\ \A row \in Range(db.edges) : row[2] # to
  /\ mem' = [mem EXCEPT !.edges = Put(@, from, Append(IF from \in DOMAIN @ THEN @[from] ELSE <<>>,
                                                      to))]
  /\ db' = [db EXCEPT !.edges = Append(@, <<from, to>>)]
  /\ UNCHANGED <<pager, used, focus>>

InsertIndexEntry(value, target) ==
  /\ \A row \in db.index : row[2] # target
  /\ mem' = [mem EXCEPT !.index = Put(@, value, Append(MemGenIndexEntries(value), target))]
  /\ db' = [db EXCEPT !.index = @ \cup {<<value, target>>}]
  /\ UNCHANGED <<pager, used, focus>>

Others(seq, x) == AtPositions(seq, {i \in DOMAIN seq : seq[i] # x})

DeleteIndexEntry(value, target) ==
  /\ mem' = [mem EXCEPT !.index =
               Put(@, value, Others(MemGenIndexEntries(value), target))]
  /\ db' = [db EXCEPT !.index = @ \ {<<value, target>>}]
  /\ UNCHANGED <<pager, used, focus>>

----------------------------------------------------------------------------
(* Paging: the next page starts after the last id of the one before *)

Page ==
  CASE pager.what = "objects" /\ pager.shard = "mem" ->
         MemGenObjectsOfType(pager.of, pager.after, pager.first)
    [] pager.what = "objects" /\ pager.shard = "db" ->
         DbGenObjectsOfType(pager.of, pager.after, pager.first)
    [] pager.what = "edges" /\ pager.shard = "mem" ->
         MemGenEdges(pager.of, pager.after, pager.first)
    [] OTHER -> DbGenEdges(pager.of, pager.after, pager.first)

StartPaging(shard, first) ==
  /\ pager = NoPager
  /\ \/ \E type \in Types :
          /\ focus = "objects"
          /\ pager' = [NoPager EXCEPT !.what = "objects", !.shard = shard, !.of = type,
                         !.first = first,
                         !.throughout = Range(DbGenObjectsOfType(type, NoId, 0))]
     \/ \E from \in Ids :
          /\ focus = "edges"
          /\ shard = "mem" => from \in DOMAIN mem.edges
          /\ pager' = [NoPager EXCEPT !.what = "edges", !.shard = shard, !.of = from,
                         !.first = first, !.throughout = Range(DbGenEdges(from, NoId, 0))]
  /\ UNCHANGED <<mem, db, used, focus>>

NextPage ==
  /\ pager.what # "none" /\ ~pager.done
  /\ pager' = IF Page = <<>>
              THEN [pager EXCEPT !.done = TRUE]
              ELSE [pager EXCEPT !.seen = @ \o Page, !.after = Page[Len(Page)],
                                 !.done = (pager.first = 0)]
  /\ UNCHANGED <<mem, db, used, focus>>

\* No call touches two of objects, edges and index entries: a behaviour about
\* one of them leaves the others empty.
ObjectCalls ==
  /\ focus = "objects"
  /\ \/ \E ids \in SUBSET Ids \ {{}}, type \in Types, data \in Datas : InsertObjects(ids, type, data)
     \/ \E id \in Ids, patch \in Datas : UpdateObject(id, patch)
     \/ \E id \in Ids : DeleteObject(id)

EdgeCalls ==
  /\ focus = "edges"
  /\ \E from, to \in Ids : InsertEdge(from, to)

IndexCalls ==
  /\ focus = "index"
  /\ \E value \in Values, target \in Ids :
       InsertIndexEntry(value, target) \/ DeleteIndexEntry(value, target)

Next ==
  \/ ObjectCalls \/ EdgeCalls \/ IndexCalls
  \/ \E shard \in {"mem", "db"}, first \in Firsts : StartPaging(shard, first)
  \/ NextPage

Spec == Init /\ [][Next]_vars

----------------------------------------------------------------------------
(* Properties *)

IsObjects(objects) == /\ DOMAIN objects \subseteq used
                      /\ \A id \in DOMAIN objects : objects[id].type \in Types
ShardsTypeOK ==
  /\ used \subseteq Ids
  /\ IsObjects(mem.objects) /\ IsObjects(db.objects)
  /\ DOMAIN mem.edges \subseteq Ids /\ \A from \in DOMAIN mem.edges : mem.edges[from] \in Seq(Ids)
  /\ db.edges \in Seq(Ids \X Ids) /\ db.index \subseteq Values \X Ids
  /\ DOMAIN mem.index \subseteq Values
  /\ pager.seen \in Seq(Ids) /\ pager.after \in Afters /\ pager.throughout \subseteq Ids

\* Two objects are the same but for `updated`, which those from memory all have
\* and a row has only when it was given as data.
Untimed(dict) == Without(dict, "updated")
SameObject(stored, row) == /\ stored.type = row.type
                           /\ Untimed(stored.data) = Untimed(row.data)
                           /\ "updated" \in DOMAIN stored.data

\* After the same calls every read of the two shards gives the same, page by
\* page and whatever id a page starts after: what a test on the in-memory
\* shard sees is what the MySQL shard does.  The differences are the code's:
\* the key `updated`; no ids to get, of which memory has none and MySQL's
\* SELECT raises; the edges of a source that never had one, which raise in
\* memory; and the order of index entries, that of their inserts there and by
\* id from MySQL.
SameAnswers ==
  /\ MemGenObjects({}) = <<>> /\ DbGenObjects({}) = Raises
  /\ \A ids \in SUBSET Ids \ {{}} : \A id \in ids :
       /\ MemGenObjects(ids)[id] = {} <=> DbGenObjects(ids)[id] = {}
       /\ \A stored \in MemGenObjects(ids)[id], row \in DbGenObjects(ids)[id] :
            SameObject(stored, row)
  /\ \A after \in Afters, first \in Firsts :
       /\ \A type \in Types :
            MemGenObjectsOfType(type, after, first) = DbGenObjectsOfType(type, after, first)
       /\ \A from \in Ids :
            IF from \in {row[1] : row \in Range(db.edges)}
              THEN MemGenEdges(from, after, first) = DbGenEdges(from, after, first)
              ELSE /\ MemGenEdges(from, after, first) = Raises
                   /\ DbGenEdges(from, after, first) = <<>>
  /\ \A value \in Values :
       /\ Range(MemGenIndexEntries(value)) = Range(DbGenIndexEntries(value))
       /\ Len(MemGenIndexEntries(value)) = Len(DbGenIndexEntries(value))

\* Paging through objects or edges, with either shard and any page size, while
\* others are inserted and deleted (the one the last page ended with among
\* them): nothing comes twice, and what was there from the first page to the
\* last has come when the pages end.
PagingComplete ==
  /\ IsInjective(pager.seen)
  /\ pager.done => pager.throughout \subseteq Range(pager.seen)

----------------------------------------------------------------------------
(* The inductive invariants behind the properties *)

\* The fields of the records, whatever is in them.
Shapes ==
  /\ mem = [objects |-> mem.objects, edges |-> mem.edges, index |-> mem.index]
  /\ db = [objects |-> db.objects, edges |-> db.edges, index |-> db.index]
  /\ pager = [what |-> pager.what, shard |-> pager.shard, of |-> pager.of,
              first |-> pager.first, after |-> pager.after, seen |-> pager.seen,
              throughout |-> pager.throughout, done |-> pager.done]
  /\ pager.what # "none" => pager.shard \in {"mem", "db"} /\ pager.first \in Firsts
  /\ \A id \in DOMAIN mem.objects :
       mem.objects[id] = [type |-> mem.objects[id].type, data |-> mem.objects[id].data]
  /\ \A id \in DOMAIN db.objects :
       db.objects[id] = [type |-> db.objects[id].type, data |-> db.objects[id].data]

SameObjects == /\ DOMAIN mem.objects = DOMAIN db.objects
               /\ \A id \in DOMAIN db.objects : SameObject(mem.objects[id], db.objects[id])

\* The list of a source is its rows in the order of row_id; an object is in
\* one row.
EdgesOf(from) == DbGenEdges(from, NoId, 0)
SameEdges ==
  /\ \A from \in DOMAIN mem.edges : mem.edges[from] = EdgesOf(from)
  /\ \A row \in DOMAIN db.edges : db.edges[row][1] \in DOMAIN mem.edges
  /\ \A from \in DOMAIN mem.edges : \E row \in DOMAIN db.edges : db.edges[row][1] = from
  /\ \A row, other \in DOMAIN db.edges : db.edges[row][2] = db.edges[other][2] => row = other

Targets(value) == {target \in Ids : <<value, target>> \in db.index}
SameEntries ==
  \A value \in Values :
    /\ MemGenIndexEntries(value) \in Seq(Ids)
    /\ IsInjective(MemGenIndexEntries(value))
    /\ Range(MemGenIndexEntries(value)) = Targets(value)

LastSeen == IF pager.seen = <<>> THEN NoId ELSE pager.seen[Len(pager.seen)]

\* The pages came in the order of ids and left out nothing up to the last.
PagedObjects ==
  pager.what = "objects" =>
    /\ pager.after = LastSeen
    /\ \A i, j \in DOMAIN pager.seen : i < j => pager.seen[i] < pager.seen[j]
    /\ \A id \in pager.throughout :
         /\ id \in DOMAIN db.objects /\ db.objects[id].type = pager.of
         /\ pager.done \/ id <= pager.after => id \in Range(pager.seen)

\* The pages are the beginning of the list, all of what it was when they end.
PagedEdges ==
  pager.what = "edges" =>
    /\ pager.shard = "mem" => pager.of \in DOMAIN mem.edges
    /\ pager.after = LastSeen
    /\ DOMAIN pager.seen \subseteq DOMAIN EdgesOf(pager.of)
    /\ \A i \in DOMAIN pager.seen : pager.seen[i] = EdgesOf(pager.of)[i]
    /\ pager.throughout \subseteq Range(EdgesOf(pager.of))
    /\ pager.done => pager.throughout \subseteq Range(pager.seen)

Paged == (pager.what \in {"none", "objects", "edges"}) /\ PagedObjects /\ PagedEdges
         /\ (pager.what = "none" => pager = NoPager)
ShardsInv == Shapes /\ SameObjects /\ SameEdges /\ SameEntries /\ Paged
=============================================================================
