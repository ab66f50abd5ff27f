------------------------------ MODULE MCKvetch ------------------------------
(* A todo schema: lists owned by users and filed under other lists, found  *)
(* by name.                                                                *)
EXTENDS Kvetch, TLC

CONSTANTS p1, p2, absent, falsy, null, work, home

MCIds == 0 .. 1
MCValues == MCIds \cup {work, home}

OwnerEdge  == [name |-> "user_to_list_edge", attr |-> "owner_id", type |-> "TodoList"]
ParentEdge == [name |-> "list_to_list_edge", attr |-> "parent_id", type |-> "TodoList"]
NameIndex  == [name |-> "list_name_index", attr |-> "name", type |-> "TodoList"]

MCEdgeDefs  == <<OwnerEdge, ParentEdge>>
MCIndexDefs == <<NameIndex>>

\* hash() of ints: one function.  Of strings: any, per process.
StableHash == {[v \in MCValues |-> IF v \in MCIds THEN v % NumShards
                                   ELSE IF v = work THEN 0 ELSE NumShards - 1]}
SeededHashes == {h \in [MCValues -> Shards] : h[work] # h[home] /\ \A v \in MCIds : h[v] = 0}

User == [type |-> "TodoUser",
         data |-> [owner_id |-> absent, parent_id |-> falsy, name |-> work]]
List(owner, parent, name) ==
  [type |-> "TodoList", data |-> [owner_id |-> owner, parent_id |-> parent, name |-> name]]

Unowned(name) == List(absent, absent, name)
RaceObjs  == {User, List(0, 0, work), Unowned(work)}
ListObjs  == {User, List(0, absent, work)}

Disown == [owner_id |-> falsy, parent_id |-> absent, name |-> home]
Reown  == [owner_id |-> 1, parent_id |-> absent, name |-> absent]
Rename == [owner_id |-> absent, parent_id |-> absent, name |-> home]
RacePatches  == {Disown}
ReownPatches == {Reown}
TwoPatches   == {Reown, Rename}

Symmetry == Permutations(Procs)
=============================================================================
