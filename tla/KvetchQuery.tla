----------------------------- MODULE KvetchQuery -----------------------------
(***************************************************************************)
(* The reads of kvetch.py and pent.py that take several statements, run    *)
(* beside the mutations of Kvetch:                                         *)
(*   scan    Kvetch.gen_from_index: every shard's index entries in turn,   *)
(*           then the objects                                              *)
(*   lookup  Pent.gen_from_index: the entries of the shard hash() names,   *)
(*           then Pent.gen of the first one, None if it has no row         *)
(*   assoc   Pent.gen_associated_pents: the edges of one source, then      *)
(*           Pent.gen_list of the ids they lead to, which raises when one  *)
(*           of them has no row                                            *)
(* Reading entries and edges never suspends, so a process does nothing     *)
(* else meanwhile; fetching the objects goes through asyncio.gather, one   *)
(* task per shard, and other coroutines of the process run in between.     *)
(*                                                                         *)
(* gen and gen_list load through the DataLoader: an object it has cached   *)
(* is answered as it was then, though it may be gone by now.  What queries *)
(* do to each other that share a batch is PentLoader's subject.            *)
(***************************************************************************)
EXTENDS Kvetch, FiniteSetsExt

CONSTANTS Readers,   \* the processes that query
          Queries    \* the kinds of query they use

\* Readers are server processes.
ASSUME QueryAssumption == Readers \subseteq Procs

VARIABLES query      \* reader -> the query it is in, or NoQuery
qvars == <<vars, query>>

Query == [phase : {"entries", "objects"}, kind : {"scan", "lookup", "assoc"}, def : Def,
          value : Values, at : Shards, due : SUBSET Ids,
          todo : SUBSET Ids,   \* to be fetched
          got : SUBSET Ids,    \* fetched
          gone : SUBSET Ids]   \* answered with None
NoQuery == [phase |-> "none"]

ValueColumn(s, d, value) ==
  {row.value : row \in {r \in indexes[s] : r.index = d.name /\ r.value = value}}
IndexTargets(s, d, value) ==
  {row.target : row \in {r \in indexes[s] : r.index = d.name /\ r.value = value}}

EdgeTargets(d, from) ==
  {row.to : row \in {r \in edges[ShardOf(from)] : r.edge = d.name /\ r.from = from}}

\* history: the objects that were there when the query began, their insert
\* finished, with the attribute asked for.
Due(d, value) == {id \in Ids : /\ how[id] = "done" /\ Live(id)
                               /\ born[id].type = d.type /\ born[id].data[d.attr] = value}

Ask(p, kind, d, value) ==
  query' = [query EXCEPT ![p] = [phase |-> "entries", kind |-> kind, def |-> d, value |-> value,
                                 at |-> 0, due |-> Due(d, value),
                                 todo |-> {}, got |-> {}, gone |-> {}]]

AskIndex(p) ==
  /\ query[p].phase = "none"
  /\ pc[p] = "idle"
  /\ \E kind \in Queries \cap {"scan", "lookup"}, j \in DOMAIN IndexDefs, value \in Values \ Ids :
       Ask(p, kind, IndexDefs[j], value)
  /\ UNCHANGED vars

AskEdges(p) ==
  /\ "assoc" \in Queries
  /\ query[p].phase = "none"
  /\ pc[p] = "idle"
  /\ \E j \in DOMAIN EdgeDefs, from \in Ids \ Unborn : Ask(p, "assoc", EdgeDefs[j], from)
  /\ UNCHANGED vars

Reading(p, kind) == query[p].phase = "entries" /\ query[p].kind = kind

\* What was read goes to the list of objects to fetch.
Fetch(p, ids) == query' = [query EXCEPT ![p].todo = ids, ![p].phase = "objects"]

\* gen_from_index extends its list shard by shard.
LastShardOnly(todo, targets) == targets
Extend(todo, targets) == todo \cup targets

ScanShard(p) ==
  /\ Reading(p, "scan")
  /\ LET r == query[p]
         ids == Extend(r.todo, IndexTargets(r.at, r.def, r.value))
     IN  IF r.at + 1 < NumShards
           THEN query' = [query EXCEPT ![p].todo = ids, ![p].at = @ + 1]
           ELSE Fetch(p, ids)
  /\ UNCHANGED vars

\* gen_id_from_index: ORDER BY target_id, the first one or None.
First(ids) == IF ids = {} THEN {} ELSE {Min(ids)}

\* get_shard_from_value.
SearchShard(p, value) == hash[p][value]

Lookup(p) ==
  /\ Reading(p, "lookup")
  /\ LET r == query[p]
     IN  Fetch(p, First(IndexTargets(SearchShard(p, r.value), r.def, r.value)))
  /\ UNCHANGED vars

ReadEdges(p) ==
  /\ Reading(p, "assoc")
  /\ Fetch(p, EdgeTargets(query[p].def, query[p].value))
  /\ UNCHANGED vars

\* gen_objects: one SELECT per shard; an id without a row yields None,
\* unless the loader has the object from before.
FetchShard(p) ==
  /\ query[p].phase = "objects"
  /\ \E s \in {ShardOf(id) : id \in query[p].todo} :
       LET here == {id \in query[p].todo : ShardOf(id) = s}
       IN  \E cached \in IF query[p].kind = "scan" THEN {{}} ELSE SUBSET here :
             LET found == {id \in here : Live(id)} \cup cached
             IN  query' = [query EXCEPT ![p].todo = @ \ here,
                                        ![p].got = @ \cup found,
                                        ![p].gone = @ \cup (here \ found)]
  /\ UNCHANGED vars

Answered(p) == query[p].phase = "objects" /\ query[p].todo = {}

Answer(p) == /\ Answered(p)
             /\ query' = [query EXCEPT ![p] = NoQuery]
             /\ UNCHANGED vars

QueryStep(p) == \/ AskIndex(p) \/ AskEdges(p)
                \/ ScanShard(p) \/ Lookup(p) \/ ReadEdges(p) \/ FetchShard(p) \/ Answer(p)

\* The mutations of Kvetch; a process that dies loses its query.
MutationStep(p) ==
  \/ /\ p \in Readers => query[p].phase # "entries"
     /\ Begin(p) \/ Continue(p) \/ StatementFails(p)
     /\ UNCHANGED query
  \/ /\ ProcessRestarts(p)
     /\ query' = IF p \in Readers THEN [query EXCEPT ![p] = NoQuery] ELSE query

QInit == Init /\ query = [p \in Readers |-> NoQuery]
QNext == \/ \E p \in Procs : MutationStep(p)
         \/ \E p \in Readers : QueryStep(p)
QSpec == QInit /\ [][QNext]_qvars

-----------------------------------------------------------------------------
AnswerTo(p, kind) == Answered(p) /\ query[p].kind = kind

\* check.isinst of gen_list, on a None.
Raises(p) == query[p].kind = "assoc" /\ query[p].gone # {}

\* A reader is in no query, or in one whose fields its phase can work with.
QueryTypeOK == query \in [Readers -> Query \cup {NoQuery}]

\* A scan that walks the shards one by one, while other processes insert,
\* update, delete and die, finds every object whose insert with the value had
\* returned when it began and that still exists when it ends, also when an
\* update has changed the value since: the index keeps the one of the insert.
ScanFindsAll ==
  \A p \in Readers : AnswerTo(p, "scan") =>
    \A id \in query[p].due : Live(id) => id \in query[p].got

\* A traversal answers with every object that was at the end of the edges
\* when it began, or raises; it raises only if the object at the end of one
\* has been deleted.
AssociationFindsAll ==
  \A p \in Readers : AnswerTo(p, "assoc") =>
    IF Raises(p)
      THEN \E id \in EdgeTargets(query[p].def, query[p].value) : born[id] # Null /\ ~Live(id)
      ELSE query[p].due \subseteq query[p].got

\* Looking a value up on the one shard hash() names finds an object, when
\* one with that value is there from before the lookup to its end.
LookupFinds ==
  \A p \in Readers :
    AnswerTo(p, "lookup") /\ (\E id \in query[p].due : Live(id)) => query[p].got # {}

-----------------------------------------------------------------------------
(* The inductive invariant behind the answers.                             *)

\* Object id was inserted with what the query asks for.
Matches(r, id) == /\ born[id] # Null
                  /\ born[id].type = r.def.type
                  /\ born[id].data[r.def.attr] = r.value

\* An entry of a due object is on a shard the scan has yet to read, or was read.
ScanAhead(r) ==
  r.phase = "entries" /\ r.kind = "scan" =>
    \A id \in r.due : Live(id) =>
      \/ id \in r.todo
      \/ \E s \in Shards : r.at <= s /\ IndexRow(r.def, born[id], id) \in indexes[s]

EdgesAhead(r) ==
  r.phase = "entries" /\ r.kind = "assoc" =>
    /\ r.value \in Ids
    /\ \A id \in r.due : EdgeRow(r.def, born[id], id) \in edges[ShardOf(r.value)]

\* A due object of a scan that is there was fetched, or is about to be.
NoneDropped(r) ==
  r.phase = "objects" /\ r.kind = "scan" =>
    \A id \in r.due : Live(id) => id \in r.todo \cup r.got

\* A traversal fetches what its edges lead to, the due objects among them,
\* and what it did not find has been deleted.
EdgesFollowed(r) ==
  r.phase = "objects" /\ r.kind = "assoc" =>
    /\ r.value \in Ids
    /\ r.due \subseteq r.todo \cup r.got \cup r.gone
    /\ r.todo \cup r.gone \subseteq EdgeTargets(r.def, r.value)
    /\ \A id \in r.gone : born[id] # Null /\ ~Live(id)

\* Nothing is answered before the objects are fetched.
NothingYet(r) == r.phase = "entries" => r.got = {} /\ r.gone = {}

QueryInv(r) == /\ \A id \in r.due : Matches(r, id)
               /\ ScanAhead(r)
               /\ EdgesAhead(r)
               /\ NoneDropped(r)
               /\ EdgesFollowed(r)
               /\ NothingYet(r)

QIInv == \A p \in Readers : query[p] # NoQuery => QueryInv(query[p])
=============================================================================
