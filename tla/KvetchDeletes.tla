---------------------------- MODULE KvetchDeletes ----------------------------
(***************************************************************************)
(* What gen_delete_object (kvetch.py) leaves in the index tables, while    *)
(* other processes insert, update, delete, fail and restart.               *)
(*                                                                         *)
(* A delete removes the entries of the object as it read it, on the shard  *)
(* of the object's id.  It cannot clean up after an insert still under     *)
(* way, after an update of an indexed attribute, or on the other shards.   *)
(* The history variables tell the deletes that nothing of the first two    *)
(* kinds disturbs.                                                         *)
(***************************************************************************)
EXTENDS Kvetch

VARIABLES
  undisturbed,  \* history: process -> nothing disturbs the delete it is in
  cleaned       \* history: the ids of which such a delete has returned
dvars == <<vars, undisturbed, cleaned>>

\* The object is indexed as it was when it was inserted.
IndexedAsBorn(obj, id) ==
  /\ obj.type = born[id].type
  /\ \A j \in DOMAIN IndexDefs : obj.data[IndexDefs[j].attr] = born[id].data[IndexDefs[j].attr]

InsertOver(id) == how[id] \notin {"unborn", "open"}

\* Noted when the row goes, and when the call returns.
Note(p) ==
  /\ undisturbed' = IF DeleteRow(p)
                      THEN [undisturbed EXCEPT ![p] =
                              InsertOver(cur[p].id) /\ IndexedAsBorn(cur[p].obj, cur[p].id)]
                      ELSE undisturbed
  /\ cleaned' = IF DeleteReturn(p) /\ undisturbed[p]
                  THEN cleaned \cup {cur[p].id}
                  ELSE cleaned

DInit == Init /\ undisturbed = [p \in Procs |-> FALSE] /\ cleaned = {}
DNext == \E p \in Procs : (Begin(p) \/ Continue(p) \/ Fault(p)) /\ Note(p)
DSpec == DInit /\ [][DNext]_dvars

-----------------------------------------------------------------------------
EntriesHere(id) == {row \in indexes[ShardOf(id)] : row.target = id}

\* A delete that started when the insert was over, read the object indexed
\* as it was born and has returned, leaves no entry of it on the shard of
\* its id, and nothing any process does later makes one.
CleanDeletes == \A id \in cleaned : EntriesHere(id) = {}

\* The entry is one of those the delete has yet to remove.
ToUnindex(p, row) ==
  \E j \in DOMAIN IndexDefs : /\ j >= cur[p].k
                              /\ Applicable(IndexDefs[j], cur[p].obj)
                              /\ row = IndexRow(IndexDefs[j], cur[p].obj, cur[p].id)

\* The loop of an undisturbed delete has removed what it passed.
UnindexInv(p) ==
  /\ pc[p] = "row" => cur[p].k = 1
  /\ pc[p] = "unindex" /\ undisturbed[p] =>
       /\ InsertOver(cur[p].id)
       /\ \A row \in EntriesHere(cur[p].id) : ToUnindex(p, row)

\* The inductive invariant behind CleanDeletes.
DeletesInv ==
  /\ undisturbed \in [Procs -> BOOLEAN]
  /\ cleaned \subseteq {id \in Ids : InsertOver(id)}
  /\ \A p \in Procs : UnindexInv(p)
  /\ CleanDeletes
=============================================================================
