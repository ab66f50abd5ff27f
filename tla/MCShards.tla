------------------------------ MODULE MCShards ------------------------------
(* Inserted and patched with two attributes: one kept, one overwritten.    *)
EXTENDS Shards

MCDatas == {[name |-> 1, owner |-> 1], [name |-> 2]}
=============================================================================
