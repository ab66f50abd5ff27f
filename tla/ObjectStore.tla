---------------------------- MODULE ObjectStore ----------------------------
(***************************************************************************)
(* What Kvetch promises about objects, with shards, processes, edges and   *)
(* indexes forgotten: one map from ids to objects.  An id is handed out    *)
(* once; an object keeps its type; an object that was deleted stays so.    *)
(***************************************************************************)
CONSTANTS Ids, Types, Data, Null

VARIABLES store,   \* id -> object, or Null while there is none
          used     \* the ids handed out so far
vars == <<store, used>>

Object == [type : Types, data : Data]

Init == /\ store = [id \in Ids |-> Null]
        /\ used = {}

\* The store after a step that changes the objects of S, and no other.
Changes(S) == /\ store' \in [Ids -> Object \cup {Null}]
              /\ \A id \in Ids \ S : store'[id] = store[id]

\* New objects, one or several at once, under ids never used before.
Create(S) == /\ S \cap used = {}
             /\ used' = used \cup S
             /\ Changes(S)
             /\ \A id \in S : store'[id] \in Object

\* An update replaces the data of an object that exists, never its type.
Replace(id) == /\ store[id] # Null
               /\ Changes({id})
               /\ store'[id] \in Object
               /\ store'[id].type = store[id].type
               /\ UNCHANGED used

Remove(id) == /\ store[id] # Null
              /\ store' = [store EXCEPT ![id] = Null]
              /\ UNCHANGED used

Next == \/ \E S \in SUBSET Ids : Create(S)
        \/ \E id \in Ids : Replace(id) \/ Remove(id)

Spec == Init /\ [][Next]_vars
=============================================================================
