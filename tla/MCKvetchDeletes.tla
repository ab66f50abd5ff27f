-------------------------- MODULE MCKvetchDeletes ---------------------------
(* The todo schema of MCKvetch.                                            *)
EXTENDS KvetchDeletes, MCKvetch
=============================================================================
