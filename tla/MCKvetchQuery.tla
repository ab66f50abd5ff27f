---------------------------- MODULE MCKvetchQuery ----------------------------
(* The todo schema of MCKvetch, one edge, one index; objects that share a  *)
(* name.                                                                   *)
EXTENDS KvetchQuery

CONSTANTS p1, p2, absent, falsy, null, work

MCIds == 0 .. 1
MCValues == Ids \cup {work}

EdgeDef  == [name |-> "user_to_list_edge", attr |-> "owner_id", type |-> "TodoList"]
IndexDef == [name |-> "list_name_index", attr |-> "name", type |-> "TodoList"]
MCEdgeDefs  == <<EdgeDef>>
MCIndexDefs == <<IndexDef>>

SeededHashes == {h \in [MCValues -> Shards] : \A v \in Ids : h[v] = 0}

Obj(type, owner, name) == [type |-> type, data |-> [owner_id |-> owner, name |-> name]]
User == Obj("TodoUser", falsy, work)
Owned == Obj("TodoList", 0, work)
MCInsertObjs == {User, Owned}
Unname == [owner_id |-> absent, name |-> falsy]
MCPatches == {Unname}
=============================================================================
