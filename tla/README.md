# A TLA+ model of graphscale

graphscale is a small framework for GraphQL servers in Python.  Objects
("pents") are kept in **Kvetch**, an object, edge and index store sharded over
MySQL databases; **Pent** wraps it in classes, with a DataLoader that batches
and caches reads; **Grapple** generates the classes, the storage schema and the
GraphQL types from a GraphQL document.  This directory models the parts that
keep state and checks what they promise.

## The system

| component | source | state | operations | model |
|---|---|---|---|---|
| Kvetch | `kvetch/kvetch.py` | none but the schema; all state is in the shards | insert, bulk insert, update, delete, objects, edges, index queries, pages | `Kvetch`, `KvetchQuery`; pages in `Shards` |
| MySQL shard | `kvetch/dbshard.py`, `data_storage.py`, `dbschema.py`, `sql.py` | tables `kvetch_objects`, `kvetch_edges`, one per index | one SQL statement per call, two for an update | inside `Kvetch`; next to the other shard in `Shards` |
| in-memory shard | `kvetch/memshard.py` | three dictionaries | the same calls, never suspended | `Shards` |
| Pent | `pent.py` | the loader's cache and queue | create, update, delete, load, traverse, look up, browse | `PentLoader`; traversal and lookup in `KvetchQuery`, browsing in `Shards`, class checks in `GrappleServer` |
| server, client | `server.py`, `graphql_client.py` | the shared context and its loader | one loader per request | the swap in `PentLoader`, a request in `GrappleServer` |
| Grapple parser | `grapple/parser.py` | none (a document to records) | types, fields, varietals, Python names | `Grapple` |
| Grapple printers | `grapple/pent_printer.py`, `graphql_printer.py`, `kvetch_printer.py`, `code_writer.py` | none (records to text) | derive classes, resolvers, definitions | `Grapple` |
| Grapple runtime | `grapple/grapple_types.py`, `graphql_impl.py` | none | rename arguments, call members, call Pent | `GrappleServer` |
| Grapple scaffolding | `grapple/scaffolding.py` | a directory of generated and hand-kept files | scaffold, rescaffold | `Scaffold` |
| helpers | `utils.py`, `check.py`, `errors.py`, `grapple/uuid.py`, `date.py`, `enum.py` | none | | the naming conventions in `Grapple` |

How they interact: a GraphQL resolver calls the pent functions; reads go
through the context's loader, which batches ids for `Kvetch.gen_objects`;
mutations go to Kvetch directly and clear the loader's entry.  Kvetch decides
the shard of every row and calls that shard.  Several server processes use the
same shards and know nothing of each other.

What is hard:

* A Kvetch call is several SQL statements on several databases, each
  autocommitted (`sql.py:24`).  Other processes' statements interleave with
  them, a statement may raise, a process may die in between.  *Correct* means:
  objects and edges where their readers look; edges and index entries complete
  after a finished insert and never invented; nothing deleted comes back.
* Two placement rules meet in the indexes: by the object's id and by the hash of
  the value.
* A query over several shards sees each at another time.
* The loader resolves many callers' futures from one batch, while mutations
  clear its cache.  *Correct* means: the object asked for, no older than the
  caller's own write, and one bad object does not fail the others.
* The in-memory shard must behave as the MySQL one, since the tests run on both,
  and a client's pages must fit together while rows come and go.
* From one document four files are derived, each printer on its own; only a
  request makes them meet, by name.  *Correct* means: what graphql-core lets
  through arrives, is stored where it is read, and edges lead both ways.
* Scaffolding overwrites generated files and must keep hand-written ones, also
  when a run is interrupted.

PROJECT.json lists each hazard at its line with the properties that cover it.

## Modules

* **ObjectStore**: the abstract specification: one map from ids to objects.
  An id is used once, an object keeps its type, a deleted object stays deleted.
* **Kvetch**: the mutations over MySQL shards, one action per SQL statement.
* **KvetchQuery**: Kvetch together with the reads that take several statements.
* **KvetchDeletes**: Kvetch with histories that tell which deletes are disturbed by
  nothing, and what those leave in the indexes.
* **KvetchProofs**: the theorems about Kvetch.  **KvetchQueryProofs**: those about
  the queries.  **KvetchDeletesProofs**: what a delete cleans.
* **PentLoader**: one server process's event loop: coroutines, the DataLoader's
  cache, queue and batches, mutations that clear it, the loader `server.py`
  swaps.  It abstracts Kvetch to versions of rows, and other processes to one
  action.  **PentLoaderProofs**: the theorems about it.
* **Shards**: the in-memory shard and the MySQL shard given the same calls, and
  a client that pages through one of them.
  **ShardsProofs**: the theorems about it.
* **Orders**: the elements of a set in a given order, for `ORDER BY`, `sorted` and
  the insertion order of dictionaries.  **OrdersProofs**: what such a sequence is.
* **Grapple**: pure operators: what `parser.py` makes of a document and what
  each printer derives from it.
* **GrappleServer**: a document scaffolded and served: requests, resolvers,
  members, the stored objects and edges.  **GrappleServerProofs**: the theorems
  about it and about what the printers of Grapple derive.
* **Scaffold**: the files of a project under runs, interruptions and edits.
* **ScaffoldProofs**: the theorems about Scaffold.
* **MCKvetch**, **MCKvetchQuery**: a todo schema for TLC, after the one in
  `docs/kvetch.rst`; **MCKvetchDeletes** reuses it; **MCPentLoader**: two coroutines;
  **MCShards**: the data of inserts and patches; **MCGrapple**: 31 documents;
  **MCScaffold**: three.

### Kvetch and the code

`objects`, `edges`, `indexes` are the tables of every shard; a table of edges or
index entries is a set of rows (timestamps, bodies of edges and row numbers are
left out).  `pc[p]` is the statement process `p` runs next and `cur[p]` its
locals: the id, the row read or the object inserted, the patch, and the position
in a loop over the schema.  Ids are the numbers `obj_id.int`, so `ShardOf` is the
code's modulo.  An attribute value is a model value or an id; `Absent` means the
key is not in the data and `Falsy` that its value is falsy, since the schema
loops test both.

| code | action |
|---|---|
| `gen_insert_object` | `InsertRow`, `InsertEdge` (one per edge definition), `EdgesDone`, `InsertIndexEntry` (one per index), `InsertReturn` |
| `gen_insert_objects` | `BulkInsert`, one statement, one shard only |
| `gen_update_object` | `UpdateRead`, `UpdateWrite` |
| `gen_delete_object` | `DeleteRead`, `DeleteRow`, `DeleteIndexEntry`, `DeleteReturn` |
| a statement raises / a process dies | `StatementFails` / `ProcessRestarts` |

No shard coroutine of `dbshard.py` suspends (pymysql blocks), so within a
process a mutation runs to its end: a process is in at most one call, and only
other processes run between two statements.  A schema definition that does not
apply is a step without effect.  An update or delete of an object that is not
there raises before it writes anything (`old_object[key] = val` and
`obj['type_id']` on `None`) and is left out.  An edge points from an id that was
handed out before (`SourcesKnown`); callers store ids under the attributes of
edge definitions (`StoredIdsAssumption`).  `hash[p]` is process `p`'s `hash()`
modulo the number of shards: one function for integers, any per process for
strings, drawn again when a process restarts.  `born` and `how` are history
variables: what an id was inserted with and how far its insert got.

### KvetchQuery and the code

A query of a reader is `entries` (asking the shards, one statement a step)
then `objects` (`gen_objects`, one step per shard, in any order as
`asyncio.gather` runs them).  Reading entries does not suspend, so the process
does nothing else meanwhile; while it fetches objects its mutations go on.
`got` is what was fetched and `gone` what came back as `None`.  A lookup and a
traversal go on to `Pent.gen` and `gen_list`, so through the DataLoader, which may
still hold an object that has no row any more (`cached` in `FetchShard`); a scan
asks Kvetch directly.  `gen_list` raises when one of its objects is `None`
(`Raises`), and the traversal fails as a whole.  `due` is history: the objects that
were there when the query began with the attribute asked for, as of their insert.
`QueryAssumption` says that readers are server processes.

### PentLoader and the code

| code | action |
|---|---|
| `Pent.gen`, `gen_list` | `Gen` (up to the await), `Finish` |
| `update_pent`, `create_pent` | `Update`, `Create` (write, clear, load in one step: nothing in them suspends), `Finish` |
| `delete_pent` | `Delete` (write, clear) |
| one of the three, a statement of Kvetch raising | `MutationRaises`: the row is written, the loader neither cleared nor asked |
| the job that `load` schedules | `Dispatch` |
| `_load_pents`, `Kvetch.gen_objects` | `FetchShard` (a task per shard), then `ResolveBatch` or `RejectBatch`; `FetchFails` when a SELECT raises |
| `root_factory` | `NewRequest` |
| another server process | `Elsewhere` |

A future is a number; `futures` holds its key, state and value, a loader's
`cache` maps an id to the future of its last load and `queue` lists the futures
to fetch.  A value is what a SELECT found: the id, whether there was a row, and
at which version (the count of writes to it), so "no older than" is a comparison
of numbers.  `written` and a task's `since` are history: the versions after the
last mutations here that returned, now and when the task asked.  `Initially` is
which objects may be there at first.  aiodataloader is not in
the repository; its part (share a cached future, queue a new one, take the
whole queue as a batch, pair the i-th value with the i-th key, fail and forget
the batch otherwise) is external and modelled from how `pent.py` relies on it.
Class checks on the answer only raise in the caller.  asyncio runs ready
callbacks first in, first out; the model lets any of them go next, which
includes every order of arrivals.  The three orders of ids in play are relations:
`RequestOrder` (the order of a call's ids), `PentOrder` (the dictionary
`gen_objects` fills shard by shard) and the order of numbers, and `InOrder` makes
the list.

### Shards and the code

`mem` and `db` hold the two shards' objects, edges and index entries, and every
mutating action makes the same call on both.  The reads are operators named
after the methods (`MemGenEdges`, `DbGenEdges`).  Ids are numbers in the order
UUIDs compare in, which is the order of `sorted` and of `ORDER BY obj_id`; the
row numbers of `db.edges` are its positions; a truth test on `after` or `first`
makes 0 and `None` the same, so 0 stands for both.  The dicts of memory carry
the key `updated` (`Stamp`, its times left out), the rows of MySQL do not.  `pager`
is a client's paging, whose next page starts after the last id of the one before,
with `throughout`, the objects or edges that were there all along.  No call
touches two of the three tables: `focus` picks one per behaviour.

Five differences are the code's.  SameAnswers states the first four, and the form of
`UpdateObject` the last: objects from memory have the key `updated`
(`memshard.py:88`; `tests/test_kvetch.py:130-131` deletes it before comparing); no
ids to get give nothing in memory, and in MySQL an `IN ()` it refuses
(`dbshard.py:169-173`); `gen_edges` of a source that never had an edge raises in
memory (`None` is sliced or iterated, `memshard.py:136`); index entries come in
insertion order in memory and by id from MySQL, so `gen_id_from_index` may give
another object; an update of a missing object returns in memory and raises in
MySQL.

### Grapple, GrappleServer and the code

A name is a sequence of words and whether capitals separate them, so
`to_snake_case`, `is_camel_case` and the suffix `_id` are operators on words and
never on characters.  A type reference is its wrappers and a name.  A generated
file is a function from names to what is found there: of a generated class, from
Python names to methods or properties (of two with one name Python keeps the
last); of the GraphQL module, from a type's fields to their arguments and
resolver; of the Kvetch module, the edge definitions, of which `Kvetch` keeps the last
with a name (`kvetch.py:151`, `LastEdgeField`).  What parser and printers
raise for are the predicates `Parses` and `Prints`.

| code | model |
|---|---|
| `parse_grapple`, `create_grapple_*` | the operators of the same names |
| `print_*` of `pent_printer.py`, `kvetch_printer.py`, `graphql_printer.py` | the operators of the same names |
| `rescaffold_graphql`, starting `serve.py` | `Scaffold`, `Reject` (a printer raises); stage `broken` when the modules do not compile (`Compiles`: a keyword or `self` as a name) or the schema cannot be built |
| `define_*_resolver`, `process_args` | `Bind`: how a request reaches its member, or what it raises |
| `gen_create_pent_dynamic` and its like | `CreatePent`, `UpdatePent`, `DeletePent`, `ReadPent`, `BrowsePents` |
| a property, a stored id, an edge field | `Property`, `StoredId`, `Targets` and `Raises` |

graphql-core is external: a document is what its parser gives (`IsDocument`,
`DocumentsAssumption`), and a request gives a subset of the arguments, the
required ones and those with defaults always, each with a value of its type.  A list
is empty or not; a value of a string, a number or a Boolean is 0 when it is false
to Python, which is what the edge loop tests.  The
dictionaries of a request are two deep (the arguments, and the fields of an
input), so `pythonify_dict`, recursive in the code, is written for two levels.
`NoneAssumption` says that Python's `None` is no string, number or module.
`BindMember` takes the checks of a member in the code's order: its parameters, the
method it calls, `check.isinst` on the data, the classes it looks up by name.
Requests run one after the other.  A hand-written member does nothing here.
A generated class is a subclass of `Pent`: a field called `gen`, `list` with
`@genFromStoredId` or `context` hides the member that generated code goes through
(`PentMembers`, `Hides`), and what calls it raises.  An edge field answers with its
`Targets`, or raises: of a source that never had an edge, since `serve.py` runs on
the in-memory shard (`memshard.py:136`), and when one of them was deleted or is of
another class, in `gen_list` (`pent.py:127-128`).

The properties speak of documents that are `WellFormed`: what the author must
see to since nothing checks it.  MCGrapple also has documents that parser or
printers reject, and careless ones that break an obligation and are served all
the same, or never start.  The obligations, each from the code:

* types have names of their own, none that of a Python scalar (`str`, `UUID`), and
  no pent is called Root; type ids differ; so do the names and the ids of edges
  (`kvetch.py:151` keeps the last of two edges with one name);
* no two fields of `Query` and `Mutation`, or of one type, share a Python name or a
  GraphQL name, nor two arguments of one field;
* no field's Python name is that of a member of `Pent` that generated members go
  through (`MembersApart`), nor, for the modules to compile, a keyword, nor `self` in
  an input;
* no field of a pent or an input is called like a key Kvetch puts into every row
  (`obj_id`, `type_id`, `updated`);
* an input field must not be called `id`: its data class takes `obj_id`, while
  `process_args` renames only the top level and the nested one arrives as `id`;
* an input of type `ID` arrives as a string, and the property typed `UUID` then
  reads null (`typed_or_none`); `Float` and `DateTime` are not imported by the
  generated GraphQL module, so the schema is never built;
* `readPent` takes an argument called `id`, unchecked by the printer, whose member
  takes `obj_id`; its type must be nullable, else no class is named;
* the classes a directive names must have the directives that make them classes,
  for the fields of pents as for those of `Query` and `Mutation`;
* `edgeToStoredId(field:)` must name the field that leads back, and inputs under
  its `_id` attribute must be UUIDs;
* a property required in the type must be required in the data of its creates,
  wherever these are, and every input gives an attribute the property's name and
  type, a list where it is a list: `typed_or_none` reads a list sent for a scalar as
  null, and a list stored as an id raises in the edge loop (`kvetch.py:227`).

EdgesMirrorStoredIds asks one thing more, `UpdatesKeepStoredIds`: no update takes an
attribute an edge is stored by, since `gen_update_object` writes no edge (the run
`stale_edges` shows what happens then).  MCGrapple has a document that breaks it;
its other properties hold.

Two behaviours follow from reading and are kept as they are: an update is
written before the class of its object is checked and a delete does not look at
the class, and an update cannot set a value to null (`_asdict` drops `None`).

### Scaffold and the code

`files` maps each path to what is in it: absent, torn (opened and truncated, its
text not written), the template, edited, or the document it was generated from;
`copies` counts the definitions of a class in `pents.py` and `hand` the classes
the developer works in.  `pc` and `next` walk the two trees in the order of
`write_scaffold`.

| code | action |
|---|---|
| `rescaffold_graphql` reads and parses the document | `Start` |
| `write_if_new_file` | `SkipExisting`, or `OpenNew` and `WriteNew` |
| the printers | `PrintAll`, before any file is opened |
| `write_file` | `OpenGenerated`, `WriteGenerated` |
| `append_to_pents_file` | `ReadPents`, `AppendClass` per class, `Finish` |
| the process is killed or a write fails | `Interrupt`, anywhere |
| the developer | `ChangeDocument`, `EditFile`, `DeleteFile`, `WriteClass`, `RemoveClass`, between runs |

`torn` and `cut` are history.  A scaffolded file torn by an interrupted run exists
for every later one and is passed over (`os.path.exists`): FinishedMatches names
this exception.  Text appended to `pents.py` is one write of a few bytes and
taken as atomic.

## Runs

Only `scaffold` checks for deadlock, since a run can always be started.  In the
other modules ids are used once and loads are bounded, and a rejected document is
not served, so a bounded instance ends in a state where nothing is left to do.

| run | instance | shows |
|---|---|---|
| races | 2 processes, 2 shards, 2 ids, 2 edge definitions and 1 index, hashes per process, 1 fault; processes symmetric | the safety properties, what a delete nothing disturbs leaves, and the refinement of ObjectStore |
| settles | 2 processes, 1 shard, bulk of 2, 1 fault, weak fairness | every insert comes to an end with its derived rows |
| scans | 2 processes, one of them with scans, lookups and traversals, inserts, updates and deletes, 2 shards, 1 fault | a scan misses nothing; a traversal misses nothing, or raises for a deleted object |
| loader_mutations | 2 coroutines, 2 shards, 2 ids, 3 loads, 2 loaders, 1 fault, an id of unknown type | a load sees this process's mutations that returned; every pending future is in one queue or batch |
| loader_reads | 2 reading coroutines, 1 shard, 2 loaders, 1 fault, fairness | answers are the objects asked for, only failed statements raise, every load ends |
| stale_edges | 1 process, updates and deletes | violated: edges of old ids and of deleted objects stay |
| lost_update | 2 processes, 1 shard, patches of two keys | violated: an update puts another's key back |
| string_lookup | 2 processes, hashes that differ | violated: a lookup asks the wrong shard |
| loader_shards | 3 objects on 2 shards | violated: two loads get each other's object |
| serve | 31 documents, 2 objects | requests bind, values read back and edges mirror stored ids in every mix of conventions |
| scaffold | 3 documents (one unprintable), 2 edits, 2 interruptions | no class twice, hand work kept, finished runs complete, generated files of one document |
| shards | 3 ids, 2 types, 2 index values, pages of 1, 2 and all | both shards answer the same but for the differences stated, pages neither skip nor repeat |

The bounds (`MaxFaults`, `MaxBulk`, the sets of ids, objects and patches) are
small because the properties speak about one or two objects at a time: two ids
give an object and the source of its edge on two different shards, two processes
give every pair of calls on them, one fault cuts either call at each of its
statements.  The theorems below have no bounds.  In PentLoader, `MaxLoads` 3
lets a key be loaded, cleared and loaded again while another is in its batch,
`MaxLoaders` 2 swaps the loader once under loads in any stage, and `MaxVersion`
2 gives every object one write after its first; `loader_shards` needs three ids,
since two ids on two shards come back in the order asked.  IndexesComplete needs two
objects with the same indexed value, UpdateKeepsOtherKeys two patches with
different keys and two processes, LookupFinds two hash functions that disagree; the
configurations contain them.  With two ids the traversals of `scans` lead from a
source to one target; several targets are covered by the theorem.  In `shards` three ids give a page that ends in the middle, one
object deleted under it and one inserted after it; in `serve` two objects give a
source and a target of an edge, and each document varies one choice of the
author; in `scaffold` two interruptions cut a run and its repetition, and two
edits change the document and undo or take over what a run wrote.  Each property
of a passing run is known to be violated by a plausible bug (the operators named `...Never`, `...Swapped`, `UpsertRow` and so on are these
variants, used by no action).

Fairness: `WF_vars(Continue(p))`, a process in a call goes on with it.  The code
awaits each statement and runs the next; MySQL answers.  Nothing forces a
process to begin a call, and faults are never forced.  In PentLoader, each
scheduled job is weakly fair (`Dispatch` per loader, the work on each future's
batch, `Finish` per task): the loop's ready queue is first in, first out.

The violated properties are the findings of PROJECT.json, each against a
sentence of `docs/` or a docstring.

What the passing runs assume shows where the code stops short; each of these was
found by enlarging the instance, and the smaller instance is the promise's scope:

* CleanDeletes claims the shard of the id only: a delete looks for the entry there
  (`kvetch.py:209`), and the insert put it on the shard of the value (line 232).  With
  two shards an entry on another one stays for good.  It also asks that the insert
  was over when the row went, and that the indexed attributes were read as they were
  inserted, since an update leaves the entry of the old value.
* An index query may meet entries of objects that are gone, or that no longer have
  the value (`pent.py:150-151` says so in a TODO).  A scan passes over the first; a
  lookup whose first entry is one answers `None`.  So nothing is claimed of what
  queries answer beyond what they must contain; after errors
  `docs/kvetch.rst` accepts this.
* AssociationFindsAll and ScanFindsAll speak of values as they were inserted, since
  edges and index entries follow inserts only (`stale_edges`).
* LocalWritesSeen counts a mutation when it returns.  One that raised after its write
  (`kvetch.py:207-210` after 203) has not cleared the loader (`pent.py:208`), and the
  pent as it was before goes on being served.
* `loader_reads` only reads.  With an update of an object while a load of it is
  queued, OnlyFaultsFail fails: the key is queued twice, `_load_pents` returns one
  value, and the DataLoader fails the whole batch (`pent.py:219`).
* Bulk inserts make no edges (`kvetch.py:247`, against `docs/kvetch.rst:140`), and
  no process repairs derived data (against `docs/kvetch.rst:107`).

## Proofs

KvetchProofs proves, for any number of processes, shards, ids, definitions and
faults and any hash functions: TypeOK, Placement, DerivedFromCanonical,
EdgesComplete, IndexesComplete, NoResurrection, and that Kvetch implements
ObjectStore.  The assumptions are those of module Kvetch: the constants have
their types, and stored ids are ids.

EdgesComplete and IndexesComplete are not inductive: that an insert which
returns has all its rows depends on what its loops have done.  `IInv` adds

* `CallInv`: in the edge loop the definitions before `k` have their rows; in
  the index loop all edges are there and, while the object lives, the entries
  of the definitions before `k`; a delete in its index loop works on an object
  that is gone;
* `HistoryInv`: `born`, `how` and the tables agree;
* `OneInserter`: two processes never insert the same id, so a call's invariant
  is not disturbed by another process's insert.

The step proof goes through `StepFacts`, what any step of any process leaves
alone (edges only grow; `born` is written once; a dead object stays dead; the
entries of a live object stay; only its own return makes an insert `done`).
`StepFactsHold` has one case per action; the invariants of the processes that
do not move follow from it (`CallKept`), and the acting process has a case per
action (`ActorKept`).  The entries of a live object stay because an entry is
only deleted in the phase `unindex`, of an object that is not live, and entries
name their target.  The refinement maps an insert or bulk insert to `Create`,
an update of an existing row to `Replace`, the DELETE to `Remove`, and every
other step to a stutter.

ScaffoldProofs proves, for any documents and any number of edits and
interruptions: ScaffoldTypeOK, NoClassTwice, FinishedMatches, GeneratedTogether
and HandWorkKept.  The assumption (`ScaffoldAssumption`): pents have names among
the classes, and none is called Root, which would be appended as Root and again
as a pent.

None is inductive on its own.  `ScaffoldInv` adds

* `PentsInv`: what waits to be appended is not there, the developer's classes
  are, and while a run appends every class of the document is there or waits.
  This is what keeps a class from being appended twice: what is missing is read
  once, and nobody else writes while the run appends;
* `TreeInv`: every scaffolded file is absent, whole, torn by an interrupted run,
  or the one being written, and those before `next` are not absent;
* `GeneratedInv`: the generated files before `next` are of the document, and all
  are of one document outside an overwrite that was cut.

The step proof (`NextInv`) has a case per action, and under it a step per
conjunct.  That the files of the trees are different files (`GeneratedTree`,
`TreesApart`) is needed wherever one file is written and another one's content
kept.

KvetchQueryProofs proves, for any readers beside any mutating processes:
QueryTypeOK, ScanFindsAll and AssociationFindsAll.  Queries take no part in the store
(`QueriesOnlyRead`), so all that is proved of Kvetch holds beside them.  `QIInv` says
of a query's record what its next statement counts on:

* `ScanAhead`: an entry of a due object that is there was read, or is on a shard
  not read yet.  This is the heart of ScanFindsAll: an entry that was there when
  the scan began stays where it is while its object lives (`EntriesStay`), so it
  cannot pass the scan from a shard ahead to one behind;
* `NoneDropped`: a due object that is there is fetched or yet to be;
* `EdgesAhead`, `EdgesFollowed`: the edges of the due objects are where they will be
  read, every due object is fetched, missing or yet to be, and what is missing was
  born and has been deleted, because an edge leads to an object that was
  (DerivedFromCanonical) and what is dead stays dead.

KvetchDeletesProofs proves CleanDeletes, for any processes, shards, faults and hash
functions.  `DeletesInv` says of a delete in its index loop that the entries on the
shard of its id are those its loop has yet to remove (`ToUnindex`); they come from
its insert (DerivedFromCanonical), which is over, and ids are used once, so nothing
adds another.

PentLoaderProofs proves, for any number of coroutines, ids, shards, loads, loaders
and faults: TypeOK, LocalWritesSeen and PendingIsQueued.  `LoaderInv` adds

* `BatchesRead`: a batch has read every key of the shards it is done with;
* `FuturesPlaced`: a future is in one queue or one batch until it is resolved and
  in none after.  A resolution touches a whole batch, a dispatch moves a whole
  queue, and the swap of the loader leaves the old one's queue with it;
* `CachesFresh`: a future cached by the loader of the context, or awaited, has been
  given and will be given nothing older than the last mutation here that had returned
  when it was asked for.  A mutation clears the loader of the context only, and only a
  load through that loader can share a cached future: this is why the old loader's
  stale entries do not matter.  One that raises clears nothing and counts for nothing.

AnswersRequested is proved for one shard, where the rows of a batch come in the
order of its keys and `_load_pents` can return them as they are; `MissingStay` adds
that an id answered with `None` has no row later, since a new id is one nobody has
loaded.  The run `loader_shards` breaks it with two.

ShardsProofs proves, for any number of ids, types and values and any page sizes:
ShardsTypeOK, SameAnswers and PagingComplete.  `ShardsInv` relates
the dictionaries and the tables (`SameObjects`: the same but for `updated`; `SameEdges`: a source's list is its
rows in the order of `row_id`, and no object is in two rows; `SameEntries`: the same
targets, each once) and says of the pager that the pages so far are, for objects, in
the order of ids and complete up to the last one seen (`PagedObjects`), and for
edges a prefix of the source's list (`PagedEdges`).  Deleting the object a page ended
with does not matter because the next page compares ids; edges are only appended.
That the page after an edge is the rest of the list is shown once for each shard,
from the lemmas of OrdersProofs about sequences in order.

GrappleServerProofs proves, for any documents and any number of objects:
GrappleTypeOK, RequestsBind, ReadsBack and EdgesMirrorStoredIds.  The assumptions
are `DocumentsAssumption` and `NoneAssumption`; that a document is `WellFormed` is
part of the properties.  `GrappleInv`, which the proof carries through every
request, is

* `AppInv`: a server serves what `Generated` makes of its document, whole.  All
  that is known of names follows from this alone;
* `StoreInv`: ids are given out in order, so an object made is one nobody has, and
  no edge leads to it yet;
* `AnswerInv`: no request so far ended in one of the exceptions.  An answer is all
  that a request leaves of how it was bound;
* `ObjectsInv`: a property's attribute is stored exactly when its field was sent,
  with what was sent and of the field's type (a list where it is one), and a required
  one was always sent.
  ReadsBack says less: `typed_or_none` turns a value of a wrong type into null, and
  a missing one raises;
* `EdgesInv`: the edges that lead to an object are those its data calls for, by the
  Kvetch definitions.  The property compares two generated members instead.

The lemmas follow a request.  First what the parser makes of a document is typed
(`ParsedTypes`, `TypeAt`, `FieldAt`) and what each generated module has under a name
(`GraphQLHolds`, `ClassesHold`), since a file keeps the last of two definitions and
`type_named` finds the first.  Then how arguments arrive (`ArgumentsProcessed`:
renamed and snake-cased they are the names `python_name` gave the parameters;
`ArgumentArrives`, `DataArrives`), that the data fit their class (`DataFits`) and the
arguments the member (`MemberArguments`), that the classes are found
(`MemberClasses`), that no member hides one of Pent's (`NothingHidden`), so that a field of Root or
of a pent binds (`RootBinds`, `PentBinds`).  Last what a create and an update leave in the store
(`PropertiesSent`, `StoresUpdated`, `EdgesOfCreate`).  The step proof has the cases
`CreateSteps`, `UpdateSteps` and `OtherSteps`.

The obligations on names of edges, of types and of row keys, and on members of
pents, were found by these proofs: a step needs each of them.  TLC then broke
EdgesMirrorStoredIds on the document whose two edges share a name and on the one
that updates a stored id, when the obligation was dropped.

OrdersProofs shows that `InOrder` gives each element once, in the order, and that
there is one such sequence, by the least-number principle, which it derives from
the well-foundedness of `<`; its mirror image (`GreatestNumber`) is what the last of
several definitions rests on.

Model-checked only: liveness (`InsertSettles`, `LoadsAnswered`), which is beyond the
prover under fairness; and OnlyFaultsFail, which needs that no key is queued twice.
The properties of the findings are violated by the code; AnswersRequested is a
theorem for one shard.

## Plan

1. Kvetch, ObjectStore, KvetchQuery and their proofs: done.
2. PentLoader, its runs and its proofs: done.
3. Shards: both implementations of a shard, and paging, with proofs: done.
4. Grapple, GrappleServer and their proofs: done.
5. Scaffold and its proofs: done.
6. Still to do: hand-written members and concurrent requests over a served document.

## Not modelled

* Layout, annotations and wording of generated code, enum values, and the copies
  of printers in `graphql_printer.py:185-232` and the unused `types_not_in_file`,
  which nothing calls.
* SQL text, pickling and compression of bodies, DDL, HTTP, and GraphQL execution
  beyond what a resolver receives.
* Connections: a statement that raises leaves its connection open until the driver
  drops it (`dbshard.py:22`); no row depends on it.
* Hand-written members and what they hide of `Pent`, field names that begin with an
  underscore, what is in a list, nested mutation data, concurrent scaffold runs (the code
  takes no lock), and directories.
* Which readers hold the very dict the in-memory shard stores and updates in place.
* The helpers without state, and the times in `updated` and `created`, which are
  written and never read back by the code.
